---- MODULE Spec2Model ----
(***************************************************************************)
(* The feed engine of Mirror (src/unnamed/part_000): the feed effect with  *)
(* its bucket snapshots and rankPosts, the pager, reactToPost with its     *)
(* optimistic patch, Firestore transaction and rollback, createPost with   *)
(* its delivery status, addReflectionComment and deletePost.               *)
(*                                                                         *)
(* Units.  The clock counts hours: Date.now() is `now`, a created_at       *)
(* timestamp is an hour number (0 = no valid timestamp), and feedWindowMs  *)
(* (24*60*60*1000 ms) is 24 clock units.  steeze_score is held in tenths   *)
(* (the code rounds to one decimal) and _feedScore in tenths as well (its  *)
(* only fractional term is engagement_count * 2.2).                        *)
(*                                                                         *)
(* React.  A state variable of the component is a variable of the model;   *)
(* a handler reads the state of the latest render, and every setter call   *)
(* is rendered before the next event is dispatched.  What an async         *)
(* function captured before an await (target, currentReactedBy, ...) is    *)
(* kept in the record of the call, as the closure keeps it.                *)
(***************************************************************************)
EXTENDS Integers, Sequences, FiniteSets, TLC

VARIABLES
    db,               \* picture_posts collection: post id -> document data
    now,              \* Date.now(), in hours
    cutoffDate,       \* cutoffDate of the running feed effect
    bucketState,      \* bucketState of the running feed effect
    posts,            \* useState posts: the feed list
    pendingReactions, \* useState pendingReactions: ids mapped to true
    reactCalls,       \* reactToPost calls suspended at an await
    feedVisibleCount, \* useState feedVisibleCount
    feedFetchLimit,   \* useState feedFetchLimit
    selectedHashtag,  \* useState selectedHashtag ("" = none)
    reranks,          \* number of rankPosts runs so far (capped), for SpecRank
    suspended,        \* profile.suspended
    isPublishing,     \* useState isPublishing
    createCalls,      \* createPost calls suspended at an await
    pendingComments,  \* useState pendingComments: ids mapped to true
    commentCalls,     \* addReflectionComment calls suspended at an await
    message,          \* useState message: the banner text ("" = none)
    deleteCalls       \* deletePost calls suspended at an await

\* the state createPost, addReflectionComment and assertCanInteract add
callVars == <<suspended, isPublishing, createCalls, pendingComments, commentCalls, deleteCalls>>

composeVars == <<suspended, isPublishing, createCalls, pendingComments, commentCalls, message,
                 deleteCalls>>

\* everything but the banner text
feedVars == <<db, now, cutoffDate, bucketState, posts, pendingReactions, reactCalls,
              feedVisibleCount, feedFetchLimit, selectedHashtag, reranks>>

vars == <<db, now, cutoffDate, bucketState, posts, pendingReactions, reactCalls,
          feedVisibleCount, feedFetchLimit, selectedHashtag, reranks,
          suspended, isPublishing, createCalls, pendingComments, commentCalls, message,
          deleteCalls>>

(***************************************************************************)
(* Program constants                                                       *)
(***************************************************************************)
feedWindowMs == 24
feedPageSize == 12
reactionKeys == <<"annoyed", "love", "surprised", "thumbs_up", "laugh">>

(***************************************************************************)
(* Bounds and the inputs the model draws from                              *)
(***************************************************************************)
ClockStep == 12       \* hours the clock advances in one Tick
Now0 == 24            \* Date.now() when the component mounts
MaxNow == Now0 + ClockStep   \* the clock stops advancing here

currentUserId == "u1"
otherUserId == "u2"
campusId == "main"
followingIds == <<"u2">>
styleTags == <<"fit">>
\* reaction keys a click (or a caller) may pass; "wow" is outside reactionKeys
ReactInputs == {"love", "wow"}
\* the posts the model reacts to
ReactPosts == {"p1"}

ReactionKeySet == {reactionKeys[i] : i \in 1..Len(reactionKeys)}

Max(a, b) == IF a >= b THEN a ELSE b
Min(a, b) == IF a <= b THEN a ELSE b

RECURSIVE SeqSum(_)
SeqSum(s) == IF s = <<>> THEN 0 ELSE Head(s) + SeqSum(Tail(s))

\* Array.prototype.find by id: the index of the first entry with that id, 0 if none
FindIndex(list, postId) ==
    IF \E i \in 1..Len(list) : list[i].id = postId
    THEN CHOOSE i \in 1..Len(list) :
            /\ list[i].id = postId
            /\ \A j \in 1..(i - 1) : list[j].id # postId
    ELSE 0

(***************************************************************************)
(* Reaction helpers (lines 135-161)                                        *)
(***************************************************************************)
createEmptyReactionCounts == [k \in ReactionKeySet |-> 0]

\* a map taken as it is stored, whatever its kinds
normalizeReactedBy_KeepsAll(has, value) ==
    IF ~has THEN <<>> ELSE value

\* value: a function from some keys to numbers; has = FALSE when value is missing
normalizeReactionCounts(has, value) ==
    IF ~has THEN createEmptyReactionCounts
    ELSE [k \in ReactionKeySet |-> IF k \in DOMAIN value THEN value[k] ELSE 0]

normalizeReactedBy(has, value) ==
    IF ~has THEN <<>>
    ELSE LET keep == {u \in DOMAIN value : u # "" /\ value[u] \in ReactionKeySet}
         IN  [u \in keep |-> value[u]]

computeReactionTotal(reactionsCount) ==
    LET counts == normalizeReactionCounts(TRUE, reactionsCount)
    IN  SeqSum([i \in 1..Len(reactionKeys) |-> counts[reactionKeys[i]]])

\* in tenths: Math.min(99, Number((engagements * 0.1).toFixed(1)))
computeSteezeScore(engagementCount) ==
    Min(990, Max(0, engagementCount))

(***************************************************************************)
(* Documents of picture_posts                                              *)
(***************************************************************************)
\* a document as createPost writes it (lines 1632-1658) and as the reaction
\* transaction updates it (lines 1771-1776); rb is its reacted_by map
CanonicalDoc(userId, campus, createdAt, tags, rb) ==
    LET counts == [k \in ReactionKeySet |-> Cardinality({u \in DOMAIN rb : rb[u] = k})]
        total == Cardinality(DOMAIN rb)
    IN  [exists |-> TRUE, user_id |-> userId, campus_id |-> campus,
         created_at |-> createdAt, tags |-> tags, media_type |-> "text",
         has_reactions_count |-> TRUE, reactions_count |-> counts,
         has_reacted_by |-> TRUE, reacted_by |-> rb,
         likes_count |-> 0, has_liked_by |-> FALSE, liked_by |-> <<>>,
         comments_count |-> 0, comments |-> <<>>,
         engagement_count |-> total, steeze_score |-> computeSteezeScore(total)]

\* a row of the earlier picture_posts schema (README.md lines 38-48): likes_count
\* and steeze_score, no reactions_count, reacted_by, liked_by or engagement_count
LegacyDoc(userId, campus, createdAt, tags, likes) ==
    [exists |-> TRUE, user_id |-> userId, campus_id |-> campus,
     created_at |-> createdAt, tags |-> tags, media_type |-> "text",
     has_reactions_count |-> FALSE, reactions_count |-> <<>>,
     has_reacted_by |-> FALSE, reacted_by |-> <<>>,
     likes_count |-> likes, has_liked_by |-> FALSE, liked_by |-> <<>>,
     comments_count |-> 0, comments |-> <<>>,
     engagement_count |-> 0, steeze_score |-> 0]

(***************************************************************************)
(* normalizePost (lines 810-844)                                           *)
(***************************************************************************)
normalizePost(id, data) ==
    LET reactionsCount0 == normalizeReactionCounts(data.has_reactions_count, data.reactions_count)
        reactedBy0 == normalizeReactedBy(data.has_reacted_by, data.reacted_by)
        fallbackLikes == data.likes_count
        fallbackLikedBy == IF data.has_liked_by THEN data.liked_by ELSE <<>>
        fallbackReactionCount == Max(fallbackLikes, Len(fallbackLikedBy))
        reactionsCount ==
            IF ~data.has_reactions_count /\ fallbackReactionCount > 0
            THEN [reactionsCount0 EXCEPT !["thumbs_up"] = fallbackReactionCount]
            ELSE reactionsCount0
        likers == {fallbackLikedBy[i] : i \in 1..Len(fallbackLikedBy)}
        reactedBy ==
            IF ~data.has_reacted_by /\ Len(fallbackLikedBy) > 0
            THEN [u \in (DOMAIN reactedBy0) \cup (likers \ {""}) |->
                    IF u \in DOMAIN reactedBy0 THEN reactedBy0[u] ELSE "thumbs_up"]
            ELSE reactedBy0
        engagementCount ==
            IF data.engagement_count # 0 THEN data.engagement_count
            ELSE computeReactionTotal(reactionsCount)
    IN  [id |-> id, user_id |-> data.user_id, created_at |-> data.created_at,
         tags |-> data.tags, media_type |-> data.media_type,
         moderated_status |-> "active",
         engagement_count |-> engagementCount,
         reactions_count |-> reactionsCount,
         reacted_by |-> reactedBy,
         comments_count |-> data.comments_count,
         comments |-> data.comments,
         delivery_status |-> "none",
         steeze_score |-> data.steeze_score]

(***************************************************************************)
(* The feed subscriptions (lines 908-978): what a snapshot delivers        *)
(***************************************************************************)
Sources == {"campus", "global", "mine", "following"}

\* where(...) of the query of each subscription; following has one chunk
Matches(source, data) ==
    /\ data.exists
    /\ data.created_at >= cutoffDate
    /\ CASE source = "campus" -> data.campus_id = campusId
         [] source = "global" -> TRUE
         [] source = "mine" -> data.user_id = currentUserId
         [] source = "following" ->
                \E i \in 1..Len(followingIds) :
                    followingIds[i] = data.user_id /\ followingIds[i] # currentUserId

\* limit(...) of the query of each subscription
QueryLimit(source) ==
    CASE source = "campus" -> feedFetchLimit
      [] source = "global" -> feedFetchLimit
      [] source = "mine" -> Max(60, feedFetchLimit \div 2)
      [] source = "following" -> Max(80, feedFetchLimit \div 2)

RECURSIVE OrderByCreatedDesc(_)
\* orderBy('created_at', 'desc')
OrderByCreatedDesc(ids) ==
    IF ids = {} THEN <<>>
    ELSE LET first == CHOOSE p \in ids : \A q \in ids : db[p].created_at >= db[q].created_at
         IN  <<first>> \o OrderByCreatedDesc(ids \ {first})

\* snapshot.docs.map(normalizePost) of a snapshot delivered now
SnapshotRows(source) ==
    LET ids == OrderByCreatedDesc({p \in DOMAIN db : Matches(source, db[p])})
        docs == SubSeq(ids, 1, Min(Len(ids), QueryLimit(source)))
    IN  [i \in 1..Len(docs) |-> normalizePost(docs[i], db[docs[i]])]

(***************************************************************************)
(* rankPosts (lines 846-906)                                               *)
(***************************************************************************)
NoFrom == [fromMine |-> FALSE, fromFollowing |-> FALSE, fromCampus |-> FALSE, fromGlobal |-> FALSE]

DataFields == {"id", "user_id", "created_at", "tags", "media_type", "moderated_status",
               "engagement_count", "reactions_count", "reacted_by", "steeze_score",
               "comments_count", "comments", "delivery_status"}

\* an addToMerged that keeps the flag of the last bucket only
addToMerged_LastSource(merged, row, source) ==
    LET idx == FindIndex(merged, row.id)
        next == [f \in DataFields |-> row[f]] @@
                [fromMine |-> source = "mine",
                 fromFollowing |-> source = "following",
                 fromCampus |-> source = "campus",
                 fromGlobal |-> source = "global"]
    IN  IF idx = 0 THEN Append(merged, next) ELSE [merged EXCEPT ![idx] = next]

\* an addToMerged on a list instead of a Map: every row is one more entry
addToMerged_Appends(merged, row, source) ==
    Append(merged, [f \in DataFields |-> row[f]] @@
                   [fromMine |-> source = "mine",
                    fromFollowing |-> source = "following",
                    fromCampus |-> source = "campus",
                    fromGlobal |-> source = "global"])

\* addToMerged: merged is the Map, as the sequence of its values in insertion order
addToMerged(merged, row, source) ==
    LET idx == FindIndex(merged, row.id)
        previous == IF idx = 0 THEN NoFrom ELSE merged[idx]
        next == [f \in DataFields |-> row[f]] @@
                [fromMine |-> previous.fromMine \/ source = "mine",
                 fromFollowing |-> previous.fromFollowing \/ source = "following",
                 fromCampus |-> previous.fromCampus \/ source = "campus",
                 fromGlobal |-> previous.fromGlobal \/ source = "global"]
    IN  IF idx = 0 THEN Append(merged, next) ELSE [merged EXCEPT ![idx] = next]

RECURSIVE AddRows(_, _, _)
\* rows.forEach((row) => addToMerged(row, source))
AddRows(merged, rows, source) ==
    IF rows = <<>> THEN merged
    ELSE LET added == addToMerged(merged, Head(rows), source)
         IN  IF Len(added) > 0 THEN AddRows(added, Tail(rows), source) ELSE added

RECURSIVE AddChunks(_, _, _)
\* Object.values(bucketState.following).forEach(...): chunks in index order
AddChunks(merged, following, indexes) ==
    IF indexes = {} THEN merged
    ELSE LET i == CHOOSE j \in indexes : \A k \in indexes : j <= k
         IN  AddChunks(AddRows(merged, following[i], "following"), following, indexes \ {i})

Merged(buckets) ==
    LET m1 == AddRows(<<>>, buckets.mine, "mine")
        m2 == AddRows(m1, buckets.campus, "campus")
        m3 == AddChunks(m2, buckets.following, DOMAIN buckets.following)
    IN  AddRows(m3, buckets.global, "global")

\* the posts of merged the current user has reacted to
ReactedByMe(merged) == SelectSeq(merged, LAMBDA post : currentUserId \in DOMAIN post.reacted_by)

CountTag(tags, tag) == Len(SelectSeq(tags, LAMBDA t : t = tag))

interactionAuthorWeights(merged, userId) ==
    5 * Len(SelectSeq(ReactedByMe(merged), LAMBDA post : post.user_id = userId))

interactionTagWeights(merged, tag) ==
    LET mine == ReactedByMe(merged)
    IN  2 * SeqSum([i \in 1..Len(mine) |-> CountTag(mine[i].tags, tag)])

\* a filter that only asks for a valid timestamp
InWindow_AnyAge(post, nowMs) ==
    post.created_at > 0

InWindow(post, nowMs) ==
    post.created_at > 0 /\ nowMs - post.created_at <= feedWindowMs

\* _feedScore of one merged post, in tenths
FeedScore(post, merged, nowMs) ==
    LET ageHours == Max(0, nowMs - post.created_at)
        recencyScore == Max(0, 24 - ageHours) * 4
        engagementScore22 == post.engagement_count * 22
        styleScore == SeqSum([i \in 1..Len(post.tags) |->
                        IF CountTag(styleTags, post.tags[i]) > 0 THEN 2 ELSE 0])
        interactionScore == SeqSum([i \in 1..Len(post.tags) |->
                                interactionTagWeights(merged, post.tags[i])])
        authorAffinity == interactionAuthorWeights(merged, post.user_id)
        sourceBoost == (IF post.fromMine THEN 120 ELSE 0) + (IF post.fromFollowing THEN 45 ELSE 0)
                       + (IF post.fromCampus THEN 12 ELSE 0) + (IF post.fromGlobal THEN 6 ELSE 0)
    IN  10 * (sourceBoost + recencyScore + styleScore + interactionScore + authorAffinity)
        + engagementScore22

\* .sort((a, b) => b._feedScore - a._feedScore): descending and stable, so an
\* entry comes after the entries that score more and after the earlier entries
\* that score the same
SortByFeedScore(list) ==
    LET n == Len(list)
        position(i) == 1 + Cardinality({j \in 1..n : list[j].feedScore > list[i].feedScore})
                         + Cardinality({j \in 1..(i - 1) : list[j].feedScore = list[i].feedScore})
    IN  [k \in 1..n |-> list[CHOOSE i \in 1..n : position(i) = k]]

\* a ranking whose interaction weights come from the feed list of the last render
Ranked_WeightsFromFeed(buckets, nowMs) ==
    LET merged == Merged(buckets)
        kept == SelectSeq(merged, LAMBDA post : InWindow(post, nowMs))
        scored == [i \in 1..Len(kept) |->
                     kept[i] @@ [feedScore |-> FeedScore(kept[i], posts, nowMs)]]
    IN  SortByFeedScore(scored)

\* the list rankPosts hands to setPosts
Ranked(buckets, nowMs) ==
    LET merged == Merged(buckets)
        kept == SelectSeq(merged, LAMBDA post : InWindow(post, nowMs))
        scored == [i \in 1..Len(kept) |->
                     kept[i] @@ [feedScore |-> FeedScore(kept[i], merged, nowMs)]]
    IN  SortByFeedScore(scored)

(***************************************************************************)
(* The pager (lines 1232-1373)                                             *)
(***************************************************************************)
visiblePosts(list) == SelectSeq(list, LAMBDA post : post.moderated_status # "hidden")

homePosts(list) == SelectSeq(visiblePosts(list), LAMBDA post : post.media_type = "text")

moodFilteredHomePosts(list, hashtag) ==
    IF hashtag = "" THEN homePosts(list)
    ELSE SelectSeq(homePosts(list), LAMBDA post : CountTag(post.tags, hashtag) > 0)

\* moodFilteredHomePosts.slice(0, feedVisibleCount)
visibleFeedPosts(list, hashtag, count) ==
    LET filtered == moodFilteredHomePosts(list, hashtag)
    IN  SubSeq(filtered, 1, Min(Len(filtered), count))

\* an updater that returns the count it was given
ClampVisibleCount_KeepsPrev(prev, length) == prev

\* the updater of the effect on moodFilteredHomePosts.length (lines 1367-1373)
ClampVisibleCount(prev, length) ==
    IF length = 0 THEN 0
    ELSE LET baseline == IF prev > 0 THEN prev ELSE feedPageSize
         IN  Min(length, Max(feedPageSize, baseline))

\* a render with a new feed list and hashtag: the effect runs when the length of
\* moodFilteredHomePosts differs from that of the previous render
Rendered(newPosts, newHashtag) ==
    LET before == Len(moodFilteredHomePosts(posts, selectedHashtag))
        after == Len(moodFilteredHomePosts(newPosts, newHashtag))
    IN  /\ posts' = newPosts
        /\ selectedHashtag' = newHashtag
        /\ feedVisibleCount' = IF after # before
                               THEN ClampVisibleCount(feedVisibleCount, after)
                               ELSE feedVisibleCount

setPosts(newPosts) == Rendered(newPosts, selectedHashtag)

(***************************************************************************)
(* The feed effect (lines 799-986)                                         *)
(***************************************************************************)
EmptyBuckets == [campus |-> <<>>, mine |-> <<>>, following |-> <<>>, global |-> <<>>]

\* a callback that starts from empty buckets and stores its own rows only
WithSnapshot_Replaces(buckets, source, rows) ==
    IF source = "following"
    THEN [EmptyBuckets EXCEPT !.following = (0 :> rows)]
    ELSE [EmptyBuckets EXCEPT ![source] = rows]

\* bucketState after the snapshot callback of a subscription stored its rows
WithSnapshot(buckets, source, rows) ==
    IF source = "following"
    THEN [buckets EXCEPT !.following = (0 :> rows) @@ buckets.following]
    ELSE [buckets EXCEPT ![source] = rows]

\* rankPosts(): setPosts(ranked)
rankPosts(buckets) == setPosts(Ranked(buckets, now))

\* the snapshot callback of one subscription
OnSnapshot(source) ==
    /\ bucketState' = WithSnapshot(bucketState, source, SnapshotRows(source))
    /\ rankPosts(bucketState')
    /\ UNCHANGED composeVars
    /\ UNCHANGED <<db, now, cutoffDate, pendingReactions, reactCalls, feedFetchLimit, reranks>>

\* an error callback that empties the bucket of its subscription and reranks
SnapshotError_ClearsBucket(source) ==
    /\ bucketState' = WithSnapshot(bucketState, source, <<>>)
    /\ rankPosts(bucketState')
    /\ message' = "feed"
    /\ UNCHANGED callVars
    /\ UNCHANGED <<db, now, cutoffDate, pendingReactions, reactCalls, feedFetchLimit, reranks>>

\* the error callback of one subscription: console.error and
\* setMessage(getFeedSnapshotMessage(error))
SnapshotError(source) ==
    /\ message' = "feed"
    /\ UNCHANGED callVars
    /\ UNCHANGED feedVars

\* setInterval(rankPosts, 30000)
RankTimer ==
    /\ rankPosts(bucketState)
    /\ UNCHANGED composeVars
    /\ UNCHANGED <<db, now, cutoffDate, bucketState, pendingReactions, reactCalls,
                   feedFetchLimit, reranks>>

\* time passes
Tick ==
    /\ now < MaxNow
    /\ now' = now + ClockStep
    /\ UNCHANGED composeVars
    /\ UNCHANGED <<db, cutoffDate, bucketState, posts, pendingReactions, reactCalls,
                   feedVisibleCount, feedFetchLimit, selectedHashtag, reranks>>

\* a dependency of the effect changed: the cleanup (clearInterval, unsubscribe) and
\* the effect body again, with a new cutoffDate and an empty bucketState.  A call
\* of reactToPost in flight belongs to the subscriptions torn down.
Resubscribe ==
    /\ cutoffDate' = now - feedWindowMs
    /\ bucketState' = EmptyBuckets
    /\ reactCalls' = {[c EXCEPT !.stale = TRUE] : c \in reactCalls}
    /\ UNCHANGED composeVars
    /\ UNCHANGED <<db, now, posts, pendingReactions, feedVisibleCount, feedFetchLimit,
                   selectedHashtag, reranks>>

(***************************************************************************)
(* reactToPost (lines 1701-1810)                                           *)
(***************************************************************************)
Without(map, userId) == [u \in (DOMAIN map) \ {userId} |-> map[u]]

With(map, userId, key) == [u \in (DOMAIN map) \cup {userId} |-> IF u = userId THEN key ELSE map[u]]

\* a check that lets every profile through
assertCanInteract_Always == TRUE

\* assertCanInteract (lines 1498-1504): false for a suspended profile
assertCanInteract == ~suspended

\* the four fields of a feed entry the reaction patch and its rollback write
ReactionFields(post) ==
    [reacted_by |-> post.reacted_by, reactions_count |-> post.reactions_count,
     engagement_count |-> post.engagement_count, steeze_score |-> post.steeze_score]

\* an optimistic step that leaves the counts alone when it removes a reaction
OptimisticReaction_RemoveKeepsCount(target, reactionKey) ==
    LET currentReactedBy == normalizeReactedBy(TRUE, target.reacted_by)
        currentReactionsCount == normalizeReactionCounts(TRUE, target.reactions_count)
        held == currentUserId \in DOMAIN currentReactedBy
        isRemoving == held /\ currentReactedBy[currentUserId] = reactionKey
        nextReactedBy == IF isRemoving THEN Without(currentReactedBy, currentUserId)
                         ELSE With(currentReactedBy, currentUserId, reactionKey)
        dropped == IF held /\ currentReactionsCount[currentReactedBy[currentUserId]] > 0
                   THEN [currentReactionsCount EXCEPT ![currentReactedBy[currentUserId]] = @ - 1]
                   ELSE currentReactionsCount
        nextReactionsCount == IF isRemoving THEN currentReactionsCount
                              ELSE [dropped EXCEPT ![reactionKey] = @ + 1]
        nextEngagement == computeReactionTotal(nextReactionsCount)
    IN  [currentReactedBy |-> currentReactedBy,
         currentReactionsCount |-> currentReactionsCount,
         isRemoving |-> isRemoving,
         nextReactedBy |-> nextReactedBy,
         nextReactionsCount |-> nextReactionsCount,
         nextEngagement |-> nextEngagement,
         nextSteeze |-> computeSteezeScore(nextEngagement)]

\* an optimistic step that clears the count of the kind it removes
OptimisticReaction_RemoveClearsKind(target, reactionKey) ==
    LET currentReactedBy == normalizeReactedBy(TRUE, target.reacted_by)
        currentReactionsCount == normalizeReactionCounts(TRUE, target.reactions_count)
        held == currentUserId \in DOMAIN currentReactedBy
        isRemoving == held /\ currentReactedBy[currentUserId] = reactionKey
        nextReactedBy == IF isRemoving THEN Without(currentReactedBy, currentUserId)
                         ELSE With(currentReactedBy, currentUserId, reactionKey)
        dropped == IF held /\ currentReactionsCount[currentReactedBy[currentUserId]] > 0
                   THEN [currentReactionsCount EXCEPT ![currentReactedBy[currentUserId]] = @ - 1]
                   ELSE currentReactionsCount
        nextReactionsCount == IF isRemoving THEN [currentReactionsCount EXCEPT ![reactionKey] = 0]
                              ELSE [dropped EXCEPT ![reactionKey] = @ + 1]
        nextEngagement == computeReactionTotal(nextReactionsCount)
    IN  [currentReactedBy |-> currentReactedBy,
         currentReactionsCount |-> currentReactionsCount,
         isRemoving |-> isRemoving,
         nextReactedBy |-> nextReactedBy,
         nextReactionsCount |-> nextReactionsCount,
         nextEngagement |-> nextEngagement,
         nextSteeze |-> computeSteezeScore(nextEngagement)]

\* lines 1707-1728: what the call computes from target before its first await
OptimisticReaction(target, reactionKey) ==
    LET currentReactedBy == normalizeReactedBy(TRUE, target.reacted_by)
        currentReactionsCount == normalizeReactionCounts(TRUE, target.reactions_count)
        held == currentUserId \in DOMAIN currentReactedBy
        isRemoving == held /\ currentReactedBy[currentUserId] = reactionKey
        nextReactedBy == IF isRemoving THEN Without(currentReactedBy, currentUserId)
                         ELSE With(currentReactedBy, currentUserId, reactionKey)
        dropped == IF held /\ currentReactionsCount[currentReactedBy[currentUserId]] > 0
                   THEN [currentReactionsCount EXCEPT ![currentReactedBy[currentUserId]] = @ - 1]
                   ELSE currentReactionsCount
        nextReactionsCount == IF isRemoving THEN dropped
                              ELSE [dropped EXCEPT ![reactionKey] = @ + 1]
        nextEngagement == computeReactionTotal(nextReactionsCount)
    IN  [currentReactedBy |-> currentReactedBy,
         currentReactionsCount |-> currentReactionsCount,
         isRemoving |-> isRemoving,
         nextReactedBy |-> nextReactedBy,
         nextReactionsCount |-> nextReactionsCount,
         nextEngagement |-> nextEngagement,
         nextSteeze |-> computeSteezeScore(nextEngagement)]

\* a map that patches every entry, whatever its id
PatchPost_EveryEntry(list, postId, patch) ==
    [i \in 1..Len(list) |->
        [f \in DOMAIN list[i] |-> IF f \in DOMAIN patch THEN patch[f] ELSE list[i][f]]]

\* prev.map((post) => post.id === postId ? {...post, ...patch} : post)
PatchPost(list, postId, patch) ==
    [i \in 1..Len(list) |->
        IF list[i].id = postId
        THEN [f \in DOMAIN list[i] |-> IF f \in DOMAIN patch THEN patch[f] ELSE list[i][f]]
        ELSE list[i]]

\* the guards without the one on pendingReactions
CanReact_IgnoresPending(postId, reactionKey) ==
    /\ reactionKey \in ReactionKeySet
    /\ FindIndex(posts, postId) # 0
    /\ assertCanInteract

\* the guards of lines 1702-1706
CanReact(postId, reactionKey) ==
    /\ reactionKey \in ReactionKeySet
    /\ FindIndex(posts, postId) # 0
    /\ assertCanInteract
    /\ postId \notin pendingReactions

\* the early returns of reactToPost: only assertCanInteract reports
ReactRejected(postId, reactionKey) ==
    /\ message' = IF /\ reactionKey \in ReactionKeySet
                     /\ FindIndex(posts, postId) # 0
                     /\ ~assertCanInteract
                  THEN "suspended" ELSE message
    /\ UNCHANGED callVars
    /\ UNCHANGED feedVars

\* the call up to its await of runTransaction
ReactToPost(postId, reactionKey) ==
    IF ~CanReact(postId, reactionKey) THEN ReactRejected(postId, reactionKey)
    ELSE LET target == posts[FindIndex(posts, postId)]
             o == OptimisticReaction(target, reactionKey)
         IN  /\ pendingReactions' = pendingReactions \cup {postId}
             /\ setPosts(PatchPost(posts, postId,
                    [reacted_by |-> o.nextReactedBy,
                     reactions_count |-> o.nextReactionsCount,
                     engagement_count |-> o.nextEngagement,
                     steeze_score |-> o.nextSteeze]))
             /\ reactCalls' = reactCalls \cup
                    {[postId |-> postId, reactionKey |-> reactionKey,
                      target |-> ReactionFields(target),
                      currentReactedBy |-> o.currentReactedBy,
                      currentReactionsCount |-> o.currentReactionsCount,
                      isRemoving |-> o.isRemoving,
                      nextReactedBy |-> o.nextReactedBy,
                      nextReactionsCount |-> o.nextReactionsCount,
                      stage |-> "transaction", stale |-> FALSE]}
             /\ UNCHANGED composeVars
             /\ UNCHANGED <<db, now, cutoffDate, bucketState, feedFetchLimit, reranks>>

\* an update function that counts the new kind without dropping the one it replaces
TransactionUpdate_KeepsReplacedKind(data, userId, reactionKey) ==
    IF ~data.exists THEN data
    ELSE LET dbReactedBy == normalizeReactedBy(data.has_reacted_by, data.reacted_by)
             dbReactionsCount == normalizeReactionCounts(data.has_reactions_count, data.reactions_count)
             held == userId \in DOMAIN dbReactedBy
             dbRemoving == held /\ dbReactedBy[userId] = reactionKey
             dropped == IF held /\ dbReactionsCount[dbReactedBy[userId]] > 0
                        THEN [dbReactionsCount EXCEPT ![dbReactedBy[userId]] = @ - 1]
                        ELSE dbReactionsCount
             nextCount == IF dbRemoving THEN dropped
                          ELSE [dbReactionsCount EXCEPT ![reactionKey] = @ + 1]
             nextReactedBy == IF dbRemoving THEN Without(dbReactedBy, userId)
                              ELSE With(dbReactedBy, userId, reactionKey)
             updatedEngagement == computeReactionTotal(nextCount)
         IN  [data EXCEPT !.engagement_count = updatedEngagement,
                          !.has_reactions_count = TRUE,
                          !.reactions_count = nextCount,
                          !.has_reacted_by = TRUE,
                          !.reacted_by = nextReactedBy,
                          !.steeze_score = computeSteezeScore(updatedEngagement)]

\* an update function that writes the counts and leaves the reacted-by map as it was
TransactionUpdate_CountsOnly(data, userId, reactionKey) ==
    IF ~data.exists THEN data
    ELSE LET dbReactedBy == normalizeReactedBy(data.has_reacted_by, data.reacted_by)
             dbReactionsCount == normalizeReactionCounts(data.has_reactions_count, data.reactions_count)
             held == userId \in DOMAIN dbReactedBy
             dbRemoving == held /\ dbReactedBy[userId] = reactionKey
             dropped == IF held /\ dbReactionsCount[dbReactedBy[userId]] > 0
                        THEN [dbReactionsCount EXCEPT ![dbReactedBy[userId]] = @ - 1]
                        ELSE dbReactionsCount
             nextCount == IF dbRemoving THEN dropped ELSE [dropped EXCEPT ![reactionKey] = @ + 1]
             updatedEngagement == computeReactionTotal(nextCount)
         IN  [data EXCEPT !.engagement_count = updatedEngagement,
                          !.has_reactions_count = TRUE,
                          !.reactions_count = nextCount,
                          !.has_reacted_by = TRUE,
                          !.reacted_by = dbReactedBy,
                          !.steeze_score = computeSteezeScore(updatedEngagement)]

\* the update function of runTransaction (lines 1750-1776), for the user running it
TransactionUpdate(data, userId, reactionKey) ==
    IF ~data.exists THEN data
    ELSE LET dbReactedBy == normalizeReactedBy(data.has_reacted_by, data.reacted_by)
             dbReactionsCount == normalizeReactionCounts(data.has_reactions_count, data.reactions_count)
             held == userId \in DOMAIN dbReactedBy
             dbRemoving == held /\ dbReactedBy[userId] = reactionKey
             dropped == IF held /\ dbReactionsCount[dbReactedBy[userId]] > 0
                        THEN [dbReactionsCount EXCEPT ![dbReactedBy[userId]] = @ - 1]
                        ELSE dbReactionsCount
             nextCount == IF dbRemoving THEN dropped ELSE [dropped EXCEPT ![reactionKey] = @ + 1]
             nextReactedBy == IF dbRemoving THEN Without(dbReactedBy, userId)
                              ELSE With(dbReactedBy, userId, reactionKey)
             updatedEngagement == computeReactionTotal(nextCount)
         IN  [data EXCEPT !.engagement_count = updatedEngagement,
                          !.has_reactions_count = TRUE,
                          !.reactions_count = nextCount,
                          !.has_reacted_by = TRUE,
                          !.reacted_by = nextReactedBy,
                          !.steeze_score = computeSteezeScore(updatedEngagement)]

\* a finally block that ends the call and leaves the post pending
Finally_KeepsPending(call) ==
    /\ reactCalls' = reactCalls \ {call}
    /\ UNCHANGED pendingReactions

\* the finally block: the call is over and its post no longer pending
Finally(call) ==
    /\ reactCalls' = reactCalls \ {call}
    /\ pendingReactions' = pendingReactions \ {call.postId}

\* a catch block that puts the map and the counts back and leaves engagement_count
Rollback_KeepsEngagement(call) ==
    LET total == computeReactionTotal(call.currentReactionsCount)
    IN  setPosts(PatchPost(posts, call.postId,
            [reacted_by |-> call.currentReactedBy,
             reactions_count |-> call.currentReactionsCount,
             steeze_score |-> IF call.target.steeze_score # 0
                              THEN call.target.steeze_score ELSE computeSteezeScore(total)]))

\* the catch block (lines 1787-1802)
Rollback(call) ==
    LET total == computeReactionTotal(call.currentReactionsCount)
    IN  setPosts(PatchPost(posts, call.postId,
            [reacted_by |-> call.currentReactedBy,
             reactions_count |-> call.currentReactionsCount,
             engagement_count |-> IF call.target.engagement_count # 0
                                  THEN call.target.engagement_count ELSE total,
             steeze_score |-> IF call.target.steeze_score # 0
                              THEN call.target.steeze_score ELSE computeSteezeScore(total)]))

\* a commit that writes the map and counts of the optimistic patch to the document
TransactionCommits_WritesPatch(call) ==
    /\ call \in reactCalls /\ call.stage = "transaction"
    /\ db' = [db EXCEPT ![call.postId] =
                [@ EXCEPT !.has_reactions_count = TRUE,
                          !.reactions_count = call.nextReactionsCount,
                          !.has_reacted_by = TRUE,
                          !.reacted_by = call.nextReactedBy,
                          !.engagement_count = computeReactionTotal(call.nextReactionsCount),
                          !.steeze_score = computeSteezeScore(computeReactionTotal(call.nextReactionsCount))]]
    /\ IF call.isRemoving
       THEN Finally(call)
       ELSE /\ reactCalls' = (reactCalls \ {call}) \cup {[call EXCEPT !.stage = "logActivity"]}
            /\ UNCHANGED pendingReactions
    /\ UNCHANGED composeVars
    /\ UNCHANGED <<now, cutoffDate, bucketState, posts, feedVisibleCount, feedFetchLimit,
                   selectedHashtag, reranks>>

\* runTransaction resolves: the update is committed; logActivity follows unless removing
TransactionCommits(call) ==
    /\ call \in reactCalls /\ call.stage = "transaction"
    /\ db' = [db EXCEPT ![call.postId] = TransactionUpdate(@, currentUserId, call.reactionKey)]
    /\ IF call.isRemoving
       THEN Finally(call)
       ELSE /\ reactCalls' = (reactCalls \ {call}) \cup {[call EXCEPT !.stage = "logActivity"]}
            /\ UNCHANGED pendingReactions
    /\ UNCHANGED composeVars
    /\ UNCHANGED <<now, cutoffDate, bucketState, posts, feedVisibleCount, feedFetchLimit,
                   selectedHashtag, reranks>>

\* runTransaction rejects: nothing is written
TransactionFails(call) ==
    /\ call \in reactCalls /\ call.stage = "transaction"
    /\ Rollback(call)
    /\ Finally(call)
    /\ message' = "reaction"
    /\ UNCHANGED callVars
    /\ UNCHANGED <<db, now, cutoffDate, bucketState, feedFetchLimit, reranks>>

\* logActivity resolves
LogActivityDone(call) ==
    /\ call \in reactCalls /\ call.stage = "logActivity"
    /\ Finally(call)
    /\ UNCHANGED composeVars
    /\ UNCHANGED <<db, now, cutoffDate, bucketState, posts, feedVisibleCount, feedFetchLimit,
                   selectedHashtag, reranks>>

\* logActivity rejects (addDoc of the activity fails) after the transaction committed
LogActivityFails(call) ==
    /\ call \in reactCalls /\ call.stage = "logActivity"
    /\ Rollback(call)
    /\ Finally(call)
    /\ message' = "reaction"
    /\ UNCHANGED callVars
    /\ UNCHANGED <<db, now, cutoffDate, bucketState, feedFetchLimit, reranks>>

\* another user's client runs the same transaction on a post
RemoteReact(postId) ==
    /\ db' = [db EXCEPT ![postId] = TransactionUpdate(@, otherUserId, "love")]
    /\ UNCHANGED composeVars
    /\ UNCHANGED <<now, cutoffDate, bucketState, posts, pendingReactions, reactCalls,
                   feedVisibleCount, feedFetchLimit, selectedHashtag, reranks>>

(***************************************************************************)
(* The component after mounting, signed in, with the feed effect running   *)
(***************************************************************************)
\* p1 is the current user's post, p2 a followed user's post, both of another campus
InitialDocs ==
    {[p1 |-> d1, p2 |-> CanonicalDoc(otherUserId, "other", 10, <<>>, <<>>)] :
        d1 \in {CanonicalDoc(currentUserId, "other", 20, <<"fit">>, <<>>),
                LegacyDoc(currentUserId, "other", 20, <<"fit">>, 2)}}

Init ==
    /\ db \in InitialDocs
    /\ now = Now0
    /\ cutoffDate = Now0 - feedWindowMs
    /\ bucketState = EmptyBuckets
    /\ posts = <<>>
    /\ pendingReactions = {}
    /\ reactCalls = {}
    /\ feedVisibleCount = 0
    /\ feedFetchLimit = 180
    /\ selectedHashtag = ""
    /\ reranks = 0
    /\ suspended = FALSE
    /\ isPublishing = FALSE
    /\ createCalls = {}
    /\ pendingComments = {}
    /\ commentCalls = {}
    /\ message = ""
    /\ deleteCalls = {}

Next ==
    \/ \E source \in Sources : OnSnapshot(source)
    \/ RankTimer
    \/ Tick
    \/ Resubscribe
    \/ \E postId \in ReactPosts, reactionKey \in ReactInputs : ReactToPost(postId, reactionKey)
    \/ \E call \in reactCalls : TransactionCommits(call)
    \/ \E call \in reactCalls : TransactionFails(call)
    \/ \E call \in reactCalls : LogActivityDone(call)
    \/ \E call \in reactCalls : LogActivityFails(call)
    \/ \E postId \in ReactPosts : RemoteReact(postId)

Spec == Init /\ [][Next]_vars

(***************************************************************************)
(* rankPosts on its own: the buckets are drawn from bounded sets and the   *)
(* timer runs rankPosts on them, the clock frozen                          *)
(***************************************************************************)
MaxReranks == 2       \* rankPosts runs counted

\* the rows a bucket may hold for p1 (the current user's post, of the current
\* campus) and p2 (a followed user's post), with and without a reaction of the
\* current user
RankRows(id) ==
    {normalizePost(id, IF id = "p1"
                       THEN CanonicalDoc(currentUserId, campusId, 20, <<"fit">>, rb)
                       ELSE CanonicalDoc(otherUserId, "other", 10, <<"fit", "ootd">>, rb)) :
        rb \in {<<>>, [u \in {currentUserId} |-> "love"]}}

RankBuckets ==
    {[mine |-> m, campus |-> c, following |-> f, global |-> g] :
        m \in {<<>>} \cup {<<r>> : r \in RankRows("p1")},
        c \in {<<>>} \cup {<<r>> : r \in RankRows("p1")},
        f \in {<<>>} \cup {(0 :> <<r>>) : r \in RankRows("p2")},
        g \in {<<>>} \cup {<<r>> : r \in RankRows("p1")}
               \cup {<<r1, r2>> : r1 \in RankRows("p1"), r2 \in RankRows("p2")}}

\* rows without tags or reactions: p3 a campus post of a user who is not
\* followed, p4 a later post of another campus, p5 a post of the current user
\* whose recency score is 20 when the clock reads Now0
ScoreRow(id) ==
    normalizePost(id, CASE id = "p3" -> CanonicalDoc("u3", campusId, 17, <<>>, <<>>)
                        [] id = "p4" -> CanonicalDoc("u3", "other", 20, <<>>, <<>>)
                        [] OTHER -> CanonicalDoc(currentUserId, campusId, Now0 - 19, <<>>, <<>>))

ScoreBuckets ==
    {[mine |-> m, campus |-> c, following |-> <<>>, global |-> g] :
        m \in {<<>>, <<ScoreRow("p5")>>},
        c \in {<<>>, <<ScoreRow("p3")>>, <<ScoreRow("p5")>>, <<ScoreRow("p3"), ScoreRow("p5")>>},
        g \in {<<>>, <<ScoreRow("p4")>>, <<ScoreRow("p4"), ScoreRow("p3")>>,
               <<ScoreRow("p4"), ScoreRow("p3"), ScoreRow("p5")>>}}

InitRank ==
    /\ db \in InitialDocs
    /\ now \in {Now0, Now0 + ClockStep}
    /\ cutoffDate = 0
    /\ bucketState \in RankBuckets \cup ScoreBuckets
    /\ posts = <<>>
    /\ pendingReactions = {}
    /\ reactCalls = {}
    /\ feedVisibleCount = 0
    /\ feedFetchLimit = 180
    /\ selectedHashtag = ""
    /\ reranks = 0
    /\ suspended = FALSE
    /\ isPublishing = FALSE
    /\ createCalls = {}
    /\ pendingComments = {}
    /\ commentCalls = {}
    /\ message = ""
    /\ deleteCalls = {}

\* the timer callback, counted
RankAgain ==
    /\ reranks < MaxReranks
    /\ reranks' = reranks + 1
    /\ rankPosts(bucketState)
    /\ UNCHANGED composeVars
    /\ UNCHANGED <<db, now, cutoffDate, bucketState, pendingReactions, reactCalls, feedFetchLimit>>

NextRank == RankAgain

SpecRank == InitRank /\ [][NextRank]_vars

(***************************************************************************)
(* The pager on a long feed: the collection holds up to MaxFeed text posts *)
(* of other users, delivered by the global subscription                    *)
(***************************************************************************)
MaxFeed == 26         \* the most documents the collection holds

PagerSizes == {0, 5, 13, MaxFeed}

\* n documents "1" .. "n" of a user who is not followed, every second one tagged
PagerDocs(n) ==
    [id \in {ToString(i) : i \in 1..n} |->
        CanonicalDoc("u3", "other", 1 + (CHOOSE i \in 1..n : ToString(i) = id),
                     IF (CHOOSE i \in 1..n : ToString(i) = id) % 2 = 0 THEN <<"fit">> ELSE <<>>,
                     <<>>)]

\* a page taken off the count instead of added to it
NextVisibleCount_Subtracts(prev, length) == Min(length, prev - feedPageSize)

\* Math.min(moodFilteredHomePosts.length, prev + feedPageSize)
NextVisibleCount(prev, length) == Min(length, prev + feedPageSize)

\* a limit that grows without a ceiling
NextFetchLimit_NoCeiling(limitValue) == limitValue + 120

\* Math.min(1200, limitValue + 120)
NextFetchLimit(limitValue) == Min(1200, limitValue + 120)

\* loadMoreFeed (lines 1348-1356); a new feedFetchLimit is a changed dependency
\* of the feed effect, which is cleaned up and run again
loadMoreFeed ==
    LET length == Len(moodFilteredHomePosts(posts, selectedHashtag))
        next == NextVisibleCount(feedVisibleCount, length)
        limitValue == IF next >= length - 2 THEN NextFetchLimit(feedFetchLimit)
                      ELSE feedFetchLimit
    IN  /\ feedVisibleCount' = next
        /\ feedFetchLimit' = limitValue
        /\ IF limitValue # feedFetchLimit
           THEN /\ cutoffDate' = now - feedWindowMs
                /\ bucketState' = EmptyBuckets
                /\ reactCalls' = {[c EXCEPT !.stale = TRUE] : c \in reactCalls}
           ELSE UNCHANGED <<cutoffDate, bucketState, reactCalls>>
        /\ UNCHANGED composeVars
        /\ UNCHANGED <<db, now, posts, pendingReactions, selectedHashtag, reranks>>

\* the mood buttons (lines 2519-2532): a hashtag, or Campus Pulse for none
SelectHashtag(tag) ==
    /\ Rendered(posts, tag)
    /\ UNCHANGED composeVars
    /\ UNCHANGED <<db, now, cutoffDate, bucketState, pendingReactions, reactCalls,
                   feedFetchLimit, reranks>>

\* other users publish and delete posts
CollectionChanges(n) ==
    /\ db' = PagerDocs(n)
    /\ UNCHANGED composeVars
    /\ UNCHANGED <<now, cutoffDate, bucketState, posts, pendingReactions, reactCalls,
                   feedVisibleCount, feedFetchLimit, selectedHashtag, reranks>>

InitPager ==
    /\ db \in {PagerDocs(n) : n \in PagerSizes}
    /\ now = Now0
    /\ cutoffDate = Now0 - feedWindowMs
    /\ bucketState = EmptyBuckets
    /\ posts = <<>>
    /\ pendingReactions = {}
    /\ reactCalls = {}
    /\ feedVisibleCount = 0
    /\ feedFetchLimit = 180
    /\ selectedHashtag = ""
    /\ reranks = 0
    /\ suspended = FALSE
    /\ isPublishing = FALSE
    /\ createCalls = {}
    /\ pendingComments = {}
    /\ commentCalls = {}
    /\ message = ""
    /\ deleteCalls = {}

NextPager ==
    \/ OnSnapshot("global")
    \/ loadMoreFeed
    \/ \E tag \in {"", "fit"} : SelectHashtag(tag)
    \/ \E n \in PagerSizes : CollectionChanges(n)

SpecPager == InitPager /\ [][NextPager]_vars

(***************************************************************************)
(* reactToPost on a post that three users have reacted to, with a profile  *)
(* that may be suspended.  runTransaction runs its update function on the  *)
(* document it read and commits only if the document did not change in     *)
(* between (it is run again otherwise), so a commit is one step.           *)
(***************************************************************************)
\* what a click (or a caller) may pass; "wow" is outside reactionKeys
ToggleInputs == {"love", "thumbs_up", "wow"}

\* reacted_by maps of the post: u1 and u2 may hold love, u1 and u3 thumbs_up
ToggleMaps ==
    {[u \in s |-> IF u = "u3" THEN "thumbs_up" ELSE IF u = currentUserId THEN k1 ELSE "love"] :
        s \in SUBSET {currentUserId, otherUserId, "u3"}, k1 \in {"love", "thumbs_up"}}

ToggleDocs ==
    {CanonicalDoc(otherUserId, "other", 20, <<>>, rb) : rb \in ToggleMaps}
        \cup {LegacyDoc(otherUserId, "other", 20, <<>>, 2)}

\* the profile subscription (lines 703-717) delivers a profile, suspended or not
ProfileSnapshot(value) ==
    /\ suspended' = value
    /\ UNCHANGED <<isPublishing, createCalls, pendingComments, commentCalls, message, deleteCalls>>
    /\ UNCHANGED <<db, now, cutoffDate, bucketState, posts, pendingReactions, reactCalls,
                   feedVisibleCount, feedFetchLimit, selectedHashtag, reranks>>

InitToggle ==
    /\ db \in {[p \in ReactPosts |-> d] : d \in ToggleDocs}
    /\ now = Now0
    /\ cutoffDate = Now0 - feedWindowMs
    /\ bucketState = EmptyBuckets
    /\ posts = <<>>
    /\ pendingReactions = {}
    /\ reactCalls = {}
    /\ feedVisibleCount = 0
    /\ feedFetchLimit = 180
    /\ selectedHashtag = ""
    /\ reranks = 0
    /\ suspended \in BOOLEAN
    /\ isPublishing = FALSE
    /\ createCalls = {}
    /\ pendingComments = {}
    /\ commentCalls = {}
    /\ message = ""
    /\ deleteCalls = {}

NextToggle ==
    \/ OnSnapshot("global")
    \/ \E value \in BOOLEAN : ProfileSnapshot(value)
    \/ \E postId \in ReactPosts, reactionKey \in ToggleInputs : ReactToPost(postId, reactionKey)
    \/ \E call \in reactCalls : TransactionCommits(call)
    \/ \E call \in reactCalls : TransactionFails(call)
    \/ \E call \in reactCalls : LogActivityDone(call)
    \/ \E call \in reactCalls : LogActivityFails(call)
    \/ \E postId \in ReactPosts : RemoteReact(postId)

SpecToggle == InitToggle /\ [][NextToggle]_vars

(***************************************************************************)
(* createPost (lines 1537-1699), with the feed subscriptions running       *)
(***************************************************************************)
MaxDocs == 3          \* the most documents the collection holds in SpecCompose

\* `local-post-${Date.now()}` of the calls, and the ids addDoc gives
TempIds == {"local-post-1", "local-post-2"}

NewIds == {"n1", "n2"}

\* postMode, with selectedFile set for a reflection post
PostModes == {"text", "reflection"}

\* optimisticPost (lines 1567-1589)
optimisticPost(tempId, mode) ==
    [id |-> tempId, user_id |-> currentUserId, created_at |-> now, tags |-> <<>>,
     media_type |-> IF mode = "reflection" THEN "image" ELSE "text",
     moderated_status |-> "active",
     engagement_count |-> 0,
     reactions_count |-> createEmptyReactionCounts,
     reacted_by |-> <<>>,
     comments_count |-> 0, comments |-> <<>>,
     steeze_score |-> computeSteezeScore(0),
     delivery_status |-> "sending"]

\* postPayload with created_at: serverTimestamp() (lines 1632-1658)
postPayload(mode) ==
    [CanonicalDoc(currentUserId, campusId, now, <<>>, <<>>)
        EXCEPT !.media_type = IF mode = "reflection" THEN "image" ELSE "text"]

\* the guards of lines 1539-1549, for a caption that is not blank
CanCreate == ~isPublishing /\ assertCanInteract

\* the early returns of createPost: only assertCanInteract reports
CreateRejected ==
    /\ message' = IF ~isPublishing /\ ~assertCanInteract THEN "suspended" ELSE message
    /\ UNCHANGED callVars
    /\ UNCHANGED feedVars

\* createPost up to its first await: uploadMedia with a file, addDoc without
CreatePost(mode) ==
    IF ~CanCreate THEN CreateRejected
    ELSE /\ \E tempId \in TempIds : FindIndex(posts, tempId) = 0
         /\ Cardinality(DOMAIN db) < MaxDocs
         /\ LET tempId == CHOOSE t \in TempIds : FindIndex(posts, t) = 0
            IN  /\ setPosts(<<optimisticPost(tempId, mode)>> \o posts)
                /\ createCalls' = createCalls \cup
                       {[tempId |-> tempId, mode |-> mode, docId |-> "",
                         stage |-> IF mode = "reflection" THEN "uploadMedia" ELSE "addDoc"]}
         /\ isPublishing' = TRUE
         /\ UNCHANGED <<suspended, pendingComments, commentCalls, message, deleteCalls>>
         /\ UNCHANGED <<db, now, cutoffDate, bucketState, pendingReactions, reactCalls,
                        feedFetchLimit, reranks>>

\* uploadMedia resolves (lines 1602-1619)
UploadDone(call) ==
    /\ call \in createCalls /\ call.stage = "uploadMedia"
    /\ setPosts(PatchPost(posts, call.tempId, [media_type |-> "image"]))
    /\ createCalls' = (createCalls \ {call}) \cup {[call EXCEPT !.stage = "addDoc"]}
    /\ UNCHANGED <<suspended, isPublishing, pendingComments, commentCalls, message, deleteCalls>>
    /\ UNCHANGED <<db, now, cutoffDate, bucketState, pendingReactions, reactCalls,
                   feedFetchLimit, reranks>>

\* uploadMedia rejects (lines 1620-1626)
UploadFails(call) ==
    /\ call \in createCalls /\ call.stage = "uploadMedia"
    /\ setPosts(SelectSeq(posts, LAMBDA post : post.id # call.tempId))
    /\ createCalls' = createCalls \ {call}
    /\ isPublishing' = FALSE
    /\ message' = "upload"
    /\ UNCHANGED <<suspended, pendingComments, commentCalls, deleteCalls>>
    /\ UNCHANGED <<db, now, cutoffDate, bucketState, pendingReactions, reactCalls,
                   feedFetchLimit, reranks>>

\* addDoc resolves (lines 1655-1658): the document exists, logActivity follows
AddDocDone(call) ==
    /\ call \in createCalls /\ call.stage = "addDoc"
    /\ \E docId \in NewIds : docId \notin DOMAIN db
    /\ LET docId == CHOOSE d \in NewIds : d \notin DOMAIN db
       IN  /\ db' = (docId :> postPayload(call.mode)) @@ db
           /\ createCalls' = (createCalls \ {call}) \cup
                  {[call EXCEPT !.stage = "logActivity", !.docId = docId]}
    /\ UNCHANGED <<suspended, isPublishing, pendingComments, commentCalls, message, deleteCalls>>
    /\ UNCHANGED <<now, cutoffDate, bucketState, posts, pendingReactions, reactCalls,
                   feedVisibleCount, feedFetchLimit, selectedHashtag, reranks>>

\* the catch of lines 1683-1698: the entry is tagged failed
PublishFailed(call) ==
    /\ setPosts(PatchPost(posts, call.tempId, [delivery_status |-> "failed"]))
    /\ createCalls' = createCalls \ {call}
    /\ isPublishing' = FALSE
    /\ message' = "publish"
    /\ UNCHANGED <<suspended, pendingComments, commentCalls, deleteCalls>>
    /\ UNCHANGED <<db, now, cutoffDate, bucketState, pendingReactions, reactCalls,
                   feedFetchLimit, reranks>>

\* addDoc rejects
AddDocFails(call) ==
    /\ call \in createCalls /\ call.stage = "addDoc"
    /\ PublishFailed(call)

\* a list that drops the entry of tempId and puts it back, relabelled, at the end
Relabelled_MovesToEnd(list, tempId, docId) ==
    SelectSeq(list, LAMBDA post : post.id # tempId)
        \o PatchPost(SelectSeq(list, LAMBDA post : post.id = tempId), tempId,
                     [id |-> docId, delivery_status |-> "sent"])

\* a list whose entry of tempId gets the id of the document and stays sending
Relabelled_KeepsSending(list, tempId, docId) ==
    PatchPost(list, tempId, [id |-> docId])

\* prev.map(post => post.id === tempId ? {...post, id: docRef.id, delivery_status: 'sent'} : post)
Relabelled(list, tempId, docId) ==
    PatchPost(list, tempId, [id |-> docId, delivery_status |-> "sent"])

\* logActivity resolves (lines 1664-1682)
CreateLogDone(call) ==
    /\ call \in createCalls /\ call.stage = "logActivity"
    /\ setPosts(Relabelled(posts, call.tempId, call.docId))
    /\ createCalls' = createCalls \ {call}
    /\ isPublishing' = FALSE
    /\ UNCHANGED <<suspended, pendingComments, commentCalls, message, deleteCalls>>
    /\ UNCHANGED <<db, now, cutoffDate, bucketState, pendingReactions, reactCalls,
                   feedFetchLimit, reranks>>

\* logActivity rejects after addDoc resolved
CreateLogFails(call) ==
    /\ call \in createCalls /\ call.stage = "logActivity"
    /\ PublishFailed(call)

ComposeSources == {"mine", "global"}

InitCompose ==
    /\ db = [p \in {"p2"} |-> CanonicalDoc(otherUserId, "other", 10, <<>>, <<>>)]
    /\ now = Now0
    /\ cutoffDate = Now0 - feedWindowMs
    /\ bucketState = EmptyBuckets
    /\ posts = <<>>
    /\ pendingReactions = {}
    /\ reactCalls = {}
    /\ feedVisibleCount = 0
    /\ feedFetchLimit = 180
    /\ selectedHashtag = ""
    /\ reranks = 0
    /\ suspended = FALSE
    /\ isPublishing = FALSE
    /\ createCalls = {}
    /\ pendingComments = {}
    /\ commentCalls = {}
    /\ message = ""
    /\ deleteCalls = {}

NextCompose ==
    \/ \E source \in ComposeSources : OnSnapshot(source)
    \/ RankTimer
    \/ \E mode \in PostModes : CreatePost(mode)
    \/ \E call \in createCalls : UploadDone(call)
    \/ \E call \in createCalls : UploadFails(call)
    \/ \E call \in createCalls : AddDocDone(call)
    \/ \E call \in createCalls : AddDocFails(call)
    \/ \E call \in createCalls : CreateLogDone(call)
    \/ \E call \in createCalls : CreateLogFails(call)

SpecCompose == InitCompose /\ [][NextCompose]_vars

\* createPost and the subscriptions while time passes
NextMerge ==
    \/ NextCompose
    \/ Tick

SpecMerge == InitCompose /\ [][NextMerge]_vars

\* createPost with a remote side that settles every promise the call awaits.
\* previewUser is never set to a user (line 2049 sets null) and a user signs in
\* through Firebase only (lines 648-654), so a call that passes the guard on
\* currentUserId runs with isFirebaseConfigured && !previewUser.
SpecDelivers ==
    /\ InitCompose
    /\ [][NextCompose]_vars
    /\ WF_vars(\E call \in createCalls : UploadDone(call) \/ UploadFails(call))
    /\ WF_vars(\E call \in createCalls : AddDocDone(call) \/ AddDocFails(call))
    /\ WF_vars(\E call \in createCalls : CreateLogDone(call) \/ CreateLogFails(call))

(***************************************************************************)
(* addReflectionComment (lines 1812-1876), beside reactToPost              *)
(***************************************************************************)
commentsKept == 150
MaxComments == 2      \* comments the model writes on a post

\* nextComment (lines 1825-1833), for a draft that is not blank
nextComment == [user_id |-> currentUserId, created_at |-> now]

\* the guards of lines 1813-1818
CanComment(postId) ==
    /\ FindIndex(posts, postId) # 0
    /\ posts[FindIndex(posts, postId)].media_type # "text"
    /\ assertCanInteract
    /\ postId \notin pendingComments

\* the early returns of addReflectionComment: only assertCanInteract reports
CommentRejected(postId) ==
    /\ message' = IF /\ FindIndex(posts, postId) # 0
                     /\ posts[FindIndex(posts, postId)].media_type # "text"
                     /\ ~assertCanInteract
                  THEN "suspended" ELSE message
    /\ UNCHANGED callVars
    /\ UNCHANGED feedVars

\* the call up to its await of runTransaction
AddReflectionComment(postId) ==
    IF ~CanComment(postId) THEN CommentRejected(postId)
    ELSE LET target == posts[FindIndex(posts, postId)]
         IN  /\ Len(SelectSeq(target.comments, LAMBDA c : c.user_id = currentUserId)) < MaxComments
             /\ setPosts(PatchPost(posts, postId,
                    [comments |-> Append(target.comments, nextComment),
                     comments_count |-> target.comments_count + 1]))
             /\ pendingComments' = pendingComments \cup {postId}
             /\ commentCalls' = commentCalls \cup {[postId |-> postId, comment |-> nextComment]}
             /\ UNCHANGED <<suspended, isPublishing, createCalls, message, deleteCalls>>
             /\ UNCHANGED <<db, now, cutoffDate, bucketState, pendingReactions, reactCalls,
                            feedFetchLimit, reranks>>

\* a slice that keeps the oldest comments: slice(0, 150)
LastComments_KeepsOldest(comments) ==
    SubSeq(comments, 1, Min(Len(comments), commentsKept))

\* [...comments, nextComment].slice(-150)
LastComments(comments) ==
    SubSeq(comments, Max(1, Len(comments) - commentsKept + 1), Len(comments))

\* the update function of the comment transaction (lines 1853-1864)
CommentUpdate(data, comment) ==
    IF ~data.exists \/ data.media_type = "text" THEN data
    ELSE LET updatedComments == LastComments(Append(data.comments, comment))
         IN  [data EXCEPT !.comments = updatedComments,
                          !.comments_count = Len(updatedComments)]

\* the finally block of lines 1869-1875
CommentFinally(call) ==
    /\ commentCalls' = commentCalls \ {call}
    /\ pendingComments' = pendingComments \ {call.postId}

\* runTransaction resolves
CommentCommits(call) ==
    /\ call \in commentCalls
    /\ db' = [db EXCEPT ![call.postId] = CommentUpdate(@, call.comment)]
    /\ CommentFinally(call)
    /\ UNCHANGED <<suspended, isPublishing, createCalls, message, deleteCalls>>
    /\ UNCHANGED <<now, cutoffDate, bucketState, posts, pendingReactions, reactCalls,
                   feedVisibleCount, feedFetchLimit, selectedHashtag, reranks>>

\* a catch block that takes the comment out of the feed entry again
CommentFails_RollsBack(call) ==
    /\ call \in commentCalls
    /\ CommentFinally(call)
    /\ IF FindIndex(posts, call.postId) = 0 THEN UNCHANGED <<posts, feedVisibleCount, selectedHashtag>>
       ELSE LET entry == posts[FindIndex(posts, call.postId)]
            IN  setPosts(PatchPost(posts, call.postId,
                    [comments |-> SelectSeq(entry.comments, LAMBDA c : c # call.comment),
                     comments_count |-> Max(0, entry.comments_count - 1)]))
    /\ message' = "comment"
    /\ UNCHANGED <<suspended, isPublishing, createCalls, deleteCalls>>
    /\ UNCHANGED <<db, now, cutoffDate, bucketState, pendingReactions, reactCalls,
                   feedFetchLimit, reranks>>

\* runTransaction rejects: the catch block (lines 1866-1868) reports the error only
CommentFails(call) ==
    /\ call \in commentCalls
    /\ CommentFinally(call)
    /\ message' = "comment"
    /\ UNCHANGED <<suspended, isPublishing, createCalls, deleteCalls>>
    /\ UNCHANGED <<db, now, cutoffDate, bucketState, posts, pendingReactions, reactCalls,
                   feedVisibleCount, feedFetchLimit, selectedHashtag, reranks>>

\* p1 is an image post of a followed user
InitComment ==
    /\ db = [p \in ReactPosts |->
                [CanonicalDoc(otherUserId, "other", 20, <<>>, <<>>) EXCEPT !.media_type = "image"]]
    /\ now = Now0
    /\ cutoffDate = Now0 - feedWindowMs
    /\ bucketState = EmptyBuckets
    /\ posts = <<>>
    /\ pendingReactions = {}
    /\ reactCalls = {}
    /\ feedVisibleCount = 0
    /\ feedFetchLimit = 180
    /\ selectedHashtag = ""
    /\ reranks = 0
    /\ suspended = FALSE
    /\ isPublishing = FALSE
    /\ createCalls = {}
    /\ pendingComments = {}
    /\ commentCalls = {}
    /\ message = ""
    /\ deleteCalls = {}

NextComment ==
    \/ OnSnapshot("global")
    \/ Tick
    \/ \E postId \in ReactPosts : AddReflectionComment(postId)
    \/ \E call \in commentCalls : CommentCommits(call)
    \/ \E call \in commentCalls : CommentFails(call)
    \/ \E postId \in ReactPosts, reactionKey \in ReactInputs : ReactToPost(postId, reactionKey)
    \/ \E call \in reactCalls : TransactionCommits(call)
    \/ \E call \in reactCalls : TransactionFails(call)
    \/ \E call \in reactCalls : LogActivityDone(call)
    \/ \E call \in reactCalls : LogActivityFails(call)

SpecComment == InitComment /\ [][NextComment]_vars

(***************************************************************************)
(* reactToPost and addReflectionComment with a remote side that settles    *)
(* every promise a call awaits, one way or the other                       *)
(***************************************************************************)
NextSettles ==
    \/ OnSnapshot("global")
    \/ \E postId \in ReactPosts : AddReflectionComment(postId)
    \/ \E call \in commentCalls : CommentCommits(call)
    \/ \E call \in commentCalls : CommentFails(call)
    \/ \E postId \in ReactPosts, reactionKey \in ReactInputs : ReactToPost(postId, reactionKey)
    \/ \E call \in reactCalls : TransactionCommits(call)
    \/ \E call \in reactCalls : TransactionFails(call)
    \/ \E call \in reactCalls : LogActivityDone(call)
    \/ \E call \in reactCalls : LogActivityFails(call)

SpecSettles ==
    /\ InitComment
    /\ [][NextSettles]_vars
    /\ WF_vars(\E call \in reactCalls : TransactionCommits(call) \/ TransactionFails(call))
    /\ WF_vars(\E call \in reactCalls : LogActivityDone(call) \/ LogActivityFails(call))
    /\ WF_vars(\E call \in commentCalls : CommentCommits(call) \/ CommentFails(call))

(***************************************************************************)
(* addReflectionComment on a post whose comment list is at the cap or just *)
(* below it                                                                *)
(***************************************************************************)
\* n comments other users appended earlier, the oldest first
OlderComments(n) ==
    [i \in 1..n |-> [user_id |-> otherUserId, created_at |-> i - commentsKept - 1]]

InitCommentCap ==
    /\ db \in {[p \in ReactPosts |->
                  [CanonicalDoc(otherUserId, "other", 20, <<>>, <<>>)
                      EXCEPT !.media_type = "image",
                             !.comments = OlderComments(n),
                             !.comments_count = n]] :
                n \in (commentsKept - MaxComments)..commentsKept}
    /\ now = Now0
    /\ cutoffDate = Now0 - feedWindowMs
    /\ bucketState = EmptyBuckets
    /\ posts = <<>>
    /\ pendingReactions = {}
    /\ reactCalls = {}
    /\ feedVisibleCount = 0
    /\ feedFetchLimit = 180
    /\ selectedHashtag = ""
    /\ reranks = 0
    /\ suspended = FALSE
    /\ isPublishing = FALSE
    /\ createCalls = {}
    /\ pendingComments = {}
    /\ commentCalls = {}
    /\ message = ""
    /\ deleteCalls = {}

NextCommentCap ==
    \/ OnSnapshot("global")
    \/ Tick
    \/ \E postId \in ReactPosts : AddReflectionComment(postId)
    \/ \E call \in commentCalls : CommentCommits(call)
    \/ \E call \in commentCalls : CommentFails(call)

SpecCommentCap == InitCommentCap /\ [][NextCommentCap]_vars

(***************************************************************************)
(* normalizePost on raw records: the collection holds one document whose   *)
(* reaction fields are drawn from bounded sets, some of them absent, some  *)
(* with keys and kinds outside reactionKeys, and the global subscription    *)
(* delivers it                                                             *)
(***************************************************************************)
\* data.reactions_count when present; "wow" is outside reactionKeys
RawCounts ==
    {[love |-> 1],
     [thumbs_up |-> 1, wow |-> 2],
     [k \in ReactionKeySet |-> IF k = "thumbs_up" THEN 2 ELSE 0]}

\* data.reacted_by when present; "wow" is outside reactionKeys
RawReactedBy ==
    {[u \in {otherUserId} |-> "love"],
     [u \in {otherUserId, "u3"} |-> IF u = "u3" THEN "wow" ELSE "thumbs_up"],
     [u \in {otherUserId, "u3"} |-> "thumbs_up"]}

\* data.liked_by when it is an array
RawLikedBy == {<<>>, <<otherUserId>>, <<otherUserId, "u3">>}

RawLikes == {0, 2}

\* a document of picture_posts with its reaction fields as given
RawDoc(hasCounts, counts, hasReactedBy, rb, likes, hasLikedBy, likedBy) ==
    [exists |-> TRUE, user_id |-> otherUserId, campus_id |-> "other",
     created_at |-> 20, tags |-> <<>>, media_type |-> "text",
     has_reactions_count |-> hasCounts, reactions_count |-> counts,
     has_reacted_by |-> hasReactedBy, reacted_by |-> rb,
     likes_count |-> likes, has_liked_by |-> hasLikedBy, liked_by |-> likedBy,
     comments_count |-> 0, comments |-> <<>>,
     engagement_count |-> 0, steeze_score |-> 0]

RawDocs ==
    {RawDoc(c # <<>>, c, rb # <<>>, rb, likes, lb[1], lb[2]) :
        c \in RawCounts \cup {<<>>},
        rb \in RawReactedBy \cup {<<>>},
        likes \in RawLikes,
        lb \in ({TRUE} \X RawLikedBy) \cup {<<FALSE, <<>>>>}}

InitNormalize ==
    /\ db \in {[p \in ReactPosts |-> d] : d \in RawDocs}
    /\ now = Now0
    /\ cutoffDate = Now0 - feedWindowMs
    /\ bucketState = EmptyBuckets
    /\ posts = <<>>
    /\ pendingReactions = {}
    /\ reactCalls = {}
    /\ feedVisibleCount = 0
    /\ feedFetchLimit = 180
    /\ selectedHashtag = ""
    /\ reranks = 0
    /\ suspended = FALSE
    /\ isPublishing = FALSE
    /\ createCalls = {}
    /\ pendingComments = {}
    /\ commentCalls = {}
    /\ message = ""
    /\ deleteCalls = {}

NextNormalize ==
    \/ OnSnapshot("global")
    \/ Tick

SpecNormalize == InitNormalize /\ [][NextNormalize]_vars

(***************************************************************************)
(* deletePost (lines 1974-1997), with the feed subscriptions running and   *)
(* another user reacting                                                   *)
(***************************************************************************)
\* canDeletePost (lines 1974-1977); isAdmin is false
canDeletePost(post) == post.user_id = currentUserId

\* the call up to its await of deleteDoc; previousPosts is the list of this render
DeletePost(postId) ==
    IF FindIndex(posts, postId) = 0 \/ ~canDeletePost(posts[FindIndex(posts, postId)])
    THEN UNCHANGED vars
    ELSE /\ setPosts(SelectSeq(posts, LAMBDA post : post.id # postId))
         /\ deleteCalls' = deleteCalls \cup {[postId |-> postId, previousPosts |-> posts]}
         /\ UNCHANGED <<suspended, isPublishing, createCalls, pendingComments, commentCalls, message>>
         /\ UNCHANGED <<db, now, cutoffDate, bucketState, pendingReactions, reactCalls,
                        feedFetchLimit, reranks>>

\* deleteDoc resolves: the document is gone
DeleteDone(call) ==
    /\ call \in deleteCalls
    /\ db' = [db EXCEPT ![call.postId].exists = FALSE]
    /\ deleteCalls' = deleteCalls \ {call}
    /\ UNCHANGED <<suspended, isPublishing, createCalls, pendingComments, commentCalls, message>>
    /\ UNCHANGED <<now, cutoffDate, bucketState, posts, pendingReactions, reactCalls,
                   feedVisibleCount, feedFetchLimit, selectedHashtag, reranks>>

\* deleteDoc rejects: the catch block (lines 1992-1996), setPosts(previousPosts)
DeleteFails(call) ==
    /\ call \in deleteCalls
    /\ setPosts(call.previousPosts)
    /\ message' = "publish"
    /\ deleteCalls' = deleteCalls \ {call}
    /\ UNCHANGED <<suspended, isPublishing, createCalls, pendingComments, commentCalls>>
    /\ UNCHANGED <<db, now, cutoffDate, bucketState, pendingReactions, reactCalls,
                   feedFetchLimit, reranks>>

\* the posts the user may click delete on
DeletePosts == {"p1", "p2"}

NextDelete ==
    \/ \E source \in ComposeSources : OnSnapshot(source)
    \/ \E postId \in DeletePosts : DeletePost(postId)
    \/ \E call \in deleteCalls : DeleteDone(call)
    \/ \E call \in deleteCalls : DeleteFails(call)
    \/ RemoteReact("p2")

SpecDelete == Init /\ [][NextDelete]_vars

(***************************************************************************)
(* The four subscriptions with their error callbacks, while another user   *)
(* reacts and time passes                                                  *)
(***************************************************************************)
NextFeedError ==
    \/ \E source \in Sources : OnSnapshot(source)
    \/ \E source \in Sources : SnapshotError(source)
    \/ RankTimer
    \/ Tick
    \/ \E postId \in ReactPosts : RemoteReact(postId)

SpecFeedError == Init /\ [][NextFeedError]_vars

(***************************************************************************)
(* reactToPost and createPost with a remote side that may stay silent: the *)
(* interval timer, the clock and the other users go on (weak fairness),    *)
(* while nothing obliges runTransaction, addDoc or logActivity to settle   *)
(***************************************************************************)
InitSilent ==
    /\ db = [p \in ReactPosts |-> CanonicalDoc(otherUserId, "other", 20, <<>>, <<>>)]
    /\ now = Now0
    /\ cutoffDate = Now0 - feedWindowMs
    /\ bucketState = EmptyBuckets
    /\ posts = <<>>
    /\ pendingReactions = {}
    /\ reactCalls = {}
    /\ feedVisibleCount = 0
    /\ feedFetchLimit = 180
    /\ selectedHashtag = ""
    /\ reranks = 0
    /\ suspended = FALSE
    /\ isPublishing = FALSE
    /\ createCalls = {}
    /\ pendingComments = {}
    /\ commentCalls = {}
    /\ message = ""
    /\ deleteCalls = {}

NextSilent ==
    \/ OnSnapshot("global")
    \/ RankTimer
    \/ Tick
    \/ \E postId \in ReactPosts : ReactToPost(postId, "love")
    \/ \E call \in reactCalls : TransactionCommits(call)
    \/ \E call \in reactCalls : TransactionFails(call)
    \/ \E call \in reactCalls : LogActivityDone(call)
    \/ \E call \in reactCalls : LogActivityFails(call)
    \/ CreatePost("text")
    \/ \E call \in createCalls : AddDocDone(call)
    \/ \E call \in createCalls : AddDocFails(call)
    \/ \E call \in createCalls : CreateLogDone(call)
    \/ \E call \in createCalls : CreateLogFails(call)
    \/ \E postId \in ReactPosts : RemoteReact(postId)

\* the timer and the clock go on, and so do the other users' clients
SpecSilent ==
    /\ InitSilent
    /\ [][NextSilent]_vars
    /\ WF_vars(RankTimer)
    /\ WF_vars(Tick)
    /\ WF_vars(\E postId \in ReactPosts : RemoteReact(postId))

(***************************************************************************)
(* Claims                                                                  *)
(***************************************************************************)
InFeed(list, postId) == FindIndex(list, postId) # 0

Entry(list, postId) == list[FindIndex(list, postId)]

\* C1: in every reachable state, for every post of the feed the sum of its
\* reaction counts equals the number of entries of its reacted-by map (a map
\* gives a user one kind at most).
C1_ReactionAccounting ==
    \A i \in 1..Len(posts) :
        computeReactionTotal(posts[i].reactions_count) = Cardinality(DOMAIN posts[i].reacted_by)

\* C2: when a reaction call fails (its transaction, or the logActivity after
\* it, rejects) the four reaction fields of the post in the feed are afterwards
\* exactly the ones the post had when the call started.
C2_RollbackExact ==
    [][\A call \in reactCalls :
          ((TransactionFails(call) \/ LogActivityFails(call)) /\ InFeed(posts', call.postId))
              => ReactionFields(Entry(posts', call.postId)) = call.target]_vars

\* the reaction map and counts of a feed entry after the optimistic step of a call
Toggled(post, reactionKey) ==
    LET o == OptimisticReaction(post, reactionKey)
    IN  [f \in DOMAIN post |->
            CASE f = "reacted_by" -> o.nextReactedBy
              [] f = "reactions_count" -> o.nextReactionsCount
              [] OTHER -> post[f]]

\* the reaction map and counts the feed shows for a document
Shown(data) ==
    [reacted_by |-> normalizeReactedBy(data.has_reacted_by, data.reacted_by),
     reactions_count |-> normalizeReactionCounts(data.has_reactions_count, data.reactions_count)]

MapAndCounts(post) == [reacted_by |-> post.reacted_by, reactions_count |-> post.reactions_count]

HeldBy(map, userId) == IF userId \in DOMAIN map THEN map[userId] ELSE "none"

C4_PendingRejects ==
    /\ [](\A p \in DOMAIN db : Cardinality({call \in reactCalls : call.postId = p}) <= 1)
    /\ [](\A call \in reactCalls : call.postId \in pendingReactions)
    /\ [][\A p \in ReactPosts, k \in ReactInputs :
            (p \in pendingReactions /\ ReactToPost(p, k))
                => UNCHANGED <<posts, pendingReactions, reactCalls, db>>]_vars

\* C4 witness: a post is pending with its one call in flight
C4_Witness ==
    \E call \in reactCalls :
        /\ call.postId \in pendingReactions
        /\ Cardinality({c \in reactCalls : c.postId = call.postId}) = 1

\* C5 (as stated): when the transaction of a call commits, the reaction map and
\* counts the feed shows for the post equal those of the document, whatever the
\* document held before.  (Stated for a document that has a reaction map and a
\* feed entry that still holds the patch of the call, so that neither the
\* earlier schema nor a rerank in between plays a part.)
C5_CommitConverges ==
    [][\A call \in reactCalls :
          (/\ TransactionCommits(call)
           /\ db[call.postId].has_reactions_count /\ db[call.postId].has_reacted_by
           /\ db[call.postId].likes_count = 0
           /\ InFeed(posts, call.postId)
           /\ MapAndCounts(Entry(posts, call.postId))
                = [reacted_by |-> call.nextReactedBy, reactions_count |-> call.nextReactionsCount])
              => MapAndCounts(Entry(posts', call.postId)) = Shown(db'[call.postId])]_vars

\* C5 (amended): when the transaction of a call commits on a document that
\* exists and whose reaction map and counts are those the call read from the
\* feed, the document afterwards holds the map and counts of the optimistic
\* patch, and a feed entry that still holds the patch equals the document.
C5_CommitConvergesFromSameState ==
    [][\A call \in reactCalls :
          (/\ TransactionCommits(call)
           /\ db[call.postId].exists
           /\ Shown(db[call.postId])
                = [reacted_by |-> call.currentReactedBy,
                   reactions_count |-> call.currentReactionsCount])
              => /\ Shown(db'[call.postId])
                      = [reacted_by |-> call.nextReactedBy,
                         reactions_count |-> call.nextReactionsCount]
                 /\ (/\ InFeed(posts, call.postId)
                     /\ MapAndCounts(Entry(posts, call.postId))
                          = [reacted_by |-> call.nextReactedBy,
                             reactions_count |-> call.nextReactionsCount])
                        => MapAndCounts(Entry(posts', call.postId)) = Shown(db'[call.postId])]_vars

\* C5 witness: a call went past its transaction, and the document and the feed
\* entry both hold the map and counts of its patch.
C5_Witness ==
    \E call \in reactCalls :
        /\ call.stage = "logActivity"
        /\ InFeed(posts, call.postId)
        /\ Shown(db[call.postId])
             = [reacted_by |-> call.nextReactedBy, reactions_count |-> call.nextReactionsCount]
        /\ MapAndCounts(Entry(posts, call.postId)) = Shown(db[call.postId])

\* C6: while a post stays pending (and in the feed), no step changes its four
\* reaction fields: a rerank does not replace them with the bucket's values.
C6_RerankKeepsPending ==
    [][\A p \in pendingReactions \cap pendingReactions' :
          (InFeed(posts, p) /\ InFeed(posts', p))
              => ReactionFields(Entry(posts', p)) = ReactionFields(Entry(posts, p))]_vars

\* C7 (as stated): in every reachable state no post of the feed was created
\* more than the window before the current clock.
C7_NeverOutsideWindow ==
    \A i \in 1..Len(posts) : now - posts[i].created_at <= feedWindowMs

\* C7 (amended): the list a rerank (snapshot callback or timer) puts in the
\* feed holds no post created more than the window before the clock of that
\* rerank, whatever its score.
C7_RerankDropsOutsideWindow ==
    [][(/\ UNCHANGED <<db, now, cutoffDate, pendingReactions, reactCalls>>
        /\ ((\E source \in Sources : OnSnapshot(source)) \/ RankTimer))
          => \A i \in 1..Len(posts') : now - posts'[i].created_at <= feedWindowMs]_vars

\* C7 witness: a bucket holds a post older than the window and the feed is the
\* ranked list of the buckets, without it.
C7_Witness ==
    /\ \E i \in 1..Len(bucketState.global) :
          now - bucketState.global[i].created_at > feedWindowMs
    /\ posts # <<>>
    /\ posts = Ranked(bucketState, now)

\* C9: no completion of a reactToPost call that was in flight when the
\* subscriptions were torn down changes the feed list.
C9_StaleCallsLeaveFeed ==
    [][\A call \in reactCalls :
          (/\ call.stale
           /\ \/ TransactionCommits(call) \/ TransactionFails(call)
              \/ LogActivityDone(call) \/ LogActivityFails(call))
              => posts' = posts]_vars

SameOrderAndScores(a, b) ==
    /\ Len(a) = Len(b)
    /\ \A i \in 1..Len(a) : a[i].id = b[i].id /\ a[i].feedScore = b[i].feedScore

IsPrefix(a, b) == Len(a) <= Len(b) /\ SubSeq(b, 1, Len(a)) = a

\* C10: the visible list after loadMoreFeed starts with the visible list before it
C10_LoadMoreKeepsPrefix ==
    [][loadMoreFeed =>
        IsPrefix(visibleFeedPosts(posts, selectedHashtag, feedVisibleCount),
                 visibleFeedPosts(posts', selectedHashtag', feedVisibleCount'))]_vars

\* C10 witness: loadMoreFeed has added a page and the list is not exhausted
C10_Witness ==
    /\ feedVisibleCount = 2 * feedPageSize
    /\ Len(moodFilteredHomePosts(posts, selectedHashtag)) > feedVisibleCount

\* C15: the feed list after a rerank is sorted by score descending, and of two
\* posts with equal score the one created later comes first (for equal
\* creation times any order of identifiers is accepted here).
C15_SortedWithTieBreaks ==
    reranks >= 1 =>
        \A i, j \in 1..Len(posts) :
            i < j => \/ posts[i].feedScore > posts[j].feedScore
                     \/ /\ posts[i].feedScore = posts[j].feedScore
                        /\ posts[i].created_at >= posts[j].created_at

\* the buckets that hold a post now
InBucket(rows, id) == \E i \in 1..Len(rows) : rows[i].id = id

BucketBoost(buckets, id) ==
    (IF InBucket(buckets.mine, id) THEN 120 ELSE 0)
    + (IF \E c \in DOMAIN buckets.following : InBucket(buckets.following[c], id) THEN 45 ELSE 0)
    + (IF InBucket(buckets.campus, id) THEN 12 ELSE 0)
    + (IF InBucket(buckets.global, id) THEN 6 ELSE 0)

Unboosted(post) ==
    [post EXCEPT !.fromMine = FALSE, !.fromFollowing = FALSE,
                 !.fromCampus = FALSE, !.fromGlobal = FALSE]

\* C16: the score of a ranked post is its score without boost plus the boosts
\* of all the buckets that hold it (120 own, 45 followed, 12 campus, 6 global);
\* the post held by the own and campus buckets only, with recency score 20 and
\* no tags or reactions, scores 152.
C16_BoostsAdditive ==
    reranks >= 1 =>
        /\ \A i \in 1..Len(posts) :
              posts[i].feedScore = 10 * BucketBoost(bucketState, posts[i].id)
                  + FeedScore(Unboosted(posts[i]), Merged(bucketState), now)
        /\ \A i \in 1..Len(posts) :
              (/\ posts[i].id = "p5" /\ now = Now0
               /\ InBucket(bucketState.mine, "p5") /\ InBucket(bucketState.campus, "p5")
               /\ ~InBucket(bucketState.global, "p5"))
                  => posts[i].feedScore = 1520

\* C16 witness: the post of the own and campus buckets ranked with score 152
C16_Witness ==
    /\ reranks >= 1
    /\ now = Now0
    /\ \E i \in 1..Len(posts) :
          /\ posts[i].id = "p5" /\ posts[i].fromMine /\ posts[i].fromCampus
          /\ ~posts[i].fromGlobal /\ posts[i].feedScore = 1520

\* C17: when the user holds exactly the kind toggled, the optimistic step takes
\* the user out of the reacted-by map and one off the count of that kind, and
\* leaves every other entry and every other count as they were.
C17_ToggleRemoves ==
    [][\A p \in ReactPosts, k \in ToggleInputs :
          (/\ CanReact(p, k)
           /\ HeldBy(Entry(posts, p).reacted_by, currentUserId) = k
           /\ ReactToPost(p, k))
              => /\ Entry(posts', p).reacted_by = Without(Entry(posts, p).reacted_by, currentUserId)
                 /\ Entry(posts', p).reactions_count
                      = [Entry(posts, p).reactions_count EXCEPT ![k] = @ - 1]]_vars

\* C17 witness: counts {love: 2, thumbs_up: 1} with u1, u2 on love and u3 on
\* thumbs_up; u1 toggled love and the feed shows {love: 1, thumbs_up: 1} without u1
C17_Witness ==
    \E call \in reactCalls :
        /\ call.isRemoving /\ call.reactionKey = "love"
        /\ call.currentReactedBy =
              [u \in {currentUserId, otherUserId, "u3"} |-> IF u = "u3" THEN "thumbs_up" ELSE "love"]
        /\ call.currentReactionsCount.love = 2 /\ call.currentReactionsCount.thumbs_up = 1
        /\ InFeed(posts, call.postId)
        /\ Entry(posts, call.postId).reactions_count.love = 1
        /\ Entry(posts, call.postId).reactions_count.thumbs_up = 1
        /\ DOMAIN Entry(posts, call.postId).reacted_by = {otherUserId, "u3"}

\* the map and counts after the user's kind j is replaced by kind k
Replaced(shown, userId, j, k) ==
    [reacted_by |-> With(shown.reacted_by, userId, k),
     reactions_count |-> [shown.reactions_count EXCEPT ![j] = @ - 1, ![k] = @ + 1]]

\* C18: when the user holds another kind than the one toggled, the toggle
\* replaces it: one off the old kind, one on the new kind, the user mapped to
\* the new kind, the engagement total unchanged; in the optimistic step and in
\* the transaction.
C18_ToggleReplaces ==
    /\ [][\A p \in ReactPosts, k \in ToggleInputs :
            (/\ CanReact(p, k)
             /\ HeldBy(Entry(posts, p).reacted_by, currentUserId) \notin {"none", k}
             /\ ReactToPost(p, k))
                => /\ MapAndCounts(Entry(posts', p))
                        = Replaced(MapAndCounts(Entry(posts, p)), currentUserId,
                                   Entry(posts, p).reacted_by[currentUserId], k)
                   /\ Entry(posts', p).engagement_count = Entry(posts, p).engagement_count]_vars
    /\ [][\A call \in reactCalls :
            (/\ db[call.postId].exists
             /\ HeldBy(Shown(db[call.postId]).reacted_by, currentUserId)
                    \notin {"none", call.reactionKey}
             /\ TransactionCommits(call))
                => /\ Shown(db'[call.postId])
                        = Replaced(Shown(db[call.postId]), currentUserId,
                                   Shown(db[call.postId]).reacted_by[currentUserId],
                                   call.reactionKey)
                   /\ db'[call.postId].engagement_count = db[call.postId].engagement_count]_vars

\* C18 witness: the user held love, toggled thumbs_up, and the transaction has
\* committed: document and feed map the user to thumbs_up
C18_Witness ==
    \E call \in reactCalls :
        /\ call.stage = "logActivity" /\ call.reactionKey = "thumbs_up"
        /\ HeldBy(call.currentReactedBy, currentUserId) = "love"
        /\ HeldBy(Shown(db[call.postId]).reacted_by, currentUserId) = "thumbs_up"
        /\ InFeed(posts, call.postId)
        /\ HeldBy(Entry(posts, call.postId).reacted_by, currentUserId) = "thumbs_up"

\* the map and counts of a document after a user toggled kind k on it
ToggledBy(shown, userId, k) ==
    LET j == HeldBy(shown.reacted_by, userId)
        off == IF j # "none" /\ shown.reactions_count[j] > 0
               THEN [shown.reactions_count EXCEPT ![j] = @ - 1] ELSE shown.reactions_count
    IN  IF j = k THEN [reacted_by |-> Without(shown.reacted_by, userId), reactions_count |-> off]
        ELSE [reacted_by |-> With(shown.reacted_by, userId, k),
              reactions_count |-> [off EXCEPT ![k] = @ + 1]]

\* C19: a transaction that commits applies the toggle of its user to the
\* document as it is then: the entries of the other users stay, whatever the
\* call read from the feed, and so does the current user's entry when another
\* user's transaction commits.
C19_NoLostUpdate ==
    /\ [][\A call \in reactCalls :
            (db[call.postId].exists /\ TransactionCommits(call))
                => /\ Shown(db'[call.postId])
                        = ToggledBy(Shown(db[call.postId]), currentUserId, call.reactionKey)
                   /\ \A u \in {otherUserId, "u3"} :
                        HeldBy(Shown(db'[call.postId]).reacted_by, u)
                            = HeldBy(Shown(db[call.postId]).reacted_by, u)]_vars
    /\ [][\A p \in ReactPosts :
            RemoteReact(p)
                => /\ Shown(db'[p]) = ToggledBy(Shown(db[p]), otherUserId, "love")
                   /\ HeldBy(Shown(db'[p]).reacted_by, currentUserId)
                        = HeldBy(Shown(db[p]).reacted_by, currentUserId)]_vars

\* C19 witness: the call of the current user read a feed entry without the
\* other user's reaction, and after its commit the document holds both
C19_Witness ==
    \E call \in reactCalls :
        /\ call.stage = "logActivity" /\ call.reactionKey = "love"
        /\ otherUserId \notin DOMAIN call.currentReactedBy
        /\ HeldBy(Shown(db[call.postId]).reacted_by, currentUserId) = "love"
        /\ HeldBy(Shown(db[call.postId]).reacted_by, otherUserId) = "love"
        /\ Shown(db[call.postId]).reactions_count.love >= 2

\* C20: reactToPost with a key outside reactionKeys, or for a suspended
\* profile, changes neither the feed, the pending set, the calls in flight
\* nor the documents.
C20_InvalidOrSuspendedRejected ==
    [][\A p \in ReactPosts, k \in ToggleInputs :
          ((k \notin ReactionKeySet \/ suspended) /\ ReactToPost(p, k))
              => UNCHANGED <<posts, pendingReactions, reactCalls, db>>]_vars

\* C20 witness: a suspended profile with the post in the feed and not pending
C20_Witness ==
    /\ suspended
    /\ \E p \in ReactPosts : InFeed(posts, p) /\ p \notin pendingReactions
    /\ reactCalls = {}

\* C12: when the creation of a text post fails its entry leaves the feed; when
\* the creation of a media post fails after the upload started (the upload, or
\* the publishing after it, rejects) its entry stays in the feed tagged failed.
C12_FailedCreateAsymmetry ==
    [][\A call \in createCalls :
          (InFeed(posts, call.tempId)
           /\ (UploadFails(call) \/ AddDocFails(call) \/ CreateLogFails(call)))
              => IF call.mode = "text"
                 THEN ~InFeed(posts', call.tempId)
                 ELSE /\ InFeed(posts', call.tempId)
                      /\ Entry(posts', call.tempId).delivery_status = "failed"]_vars

\* C13: while a createPost call is in flight its entry is in the feed, tagged
\* sending, whatever snapshots and timer reranks occur.
C13_SendingStaysInFeed ==
    \A call \in createCalls :
        /\ InFeed(posts, call.tempId)
        /\ Entry(posts, call.tempId).delivery_status = "sending"

\* C14: when the creation succeeds, the entry of the call gets the id of the
\* document and the status sent, at the position it had, and every other
\* entry of the feed stays where and what it was.
C14_RelabelInPlace ==
    [][\A call \in createCalls :
          (InFeed(posts, call.tempId) /\ CreateLogDone(call))
              => /\ Len(posts') = Len(posts)
                 /\ \A i \in 1..Len(posts) :
                      IF posts[i].id = call.tempId
                      THEN posts'[i] = [posts[i] EXCEPT !.id = call.docId,
                                                        !.delivery_status = "sent"]
                      ELSE posts'[i] = posts[i]]_vars

\* C14 witness: the entry of a created post leads the feed with the id of its
\* document and the status sent, another post behind it
C14_Witness ==
    /\ Len(posts) >= 2
    /\ posts[1].id \in NewIds
    /\ posts[1].delivery_status = "sent"
    /\ createCalls = {}

\* C11: when the transaction of a comment rejects, the comments and the
\* comment counter of the feed entry stay as the optimistic step left them;
\* when the transaction of a reaction rejects, the reaction map and counts of
\* the feed entry go back to the ones the call started from.
C11_CommentStaysReactionReverts ==
    /\ [][\A call \in commentCalls :
            (InFeed(posts, call.postId) /\ CommentFails(call))
                => /\ InFeed(posts', call.postId)
                   /\ Entry(posts', call.postId).comments = Entry(posts, call.postId).comments
                   /\ Entry(posts', call.postId).comments_count
                        = Entry(posts, call.postId).comments_count]_vars
    /\ [][\A call \in reactCalls :
            (InFeed(posts, call.postId) /\ TransactionFails(call))
                => MapAndCounts(Entry(posts', call.postId))
                     = [reacted_by |-> call.currentReactedBy,
                        reactions_count |-> call.currentReactionsCount]]_vars

\* C11 witness: no call is in flight, the feed entry shows a comment and
\* counts it, and the document has none: the transaction of the comment failed
C11_Witness ==
    /\ commentCalls = {} /\ reactCalls = {}
    /\ \E p \in ReactPosts :
          /\ InFeed(posts, p)
          /\ Len(Entry(posts, p).comments) = 1 /\ Entry(posts, p).comments_count = 1
          /\ db[p].comments = <<>>

\* C21: a reaction call and a createPost call end after a bounded wait even if
\* the remote side never answers: a pending post stops being pending and
\* isPublishing goes back to false.
C21_SilentRemoteTimesOut ==
    /\ \A p \in ReactPosts : (p \in pendingReactions) ~> (p \notin pendingReactions)
    /\ isPublishing ~> ~isPublishing

\* C22: the error callback of a feed subscription leaves every bucket and the
\* ranked feed as they were, and once an error has been reported, any step that
\* changes a bucket (a snapshot of any subscription) still stores the ranking of
\* the new buckets as the feed.
C22_ErrorLeavesFeed ==
    [][/\ \A source \in Sources :
            SnapshotError(source) => bucketState' = bucketState /\ posts' = posts
       /\ (message = "feed" /\ bucketState' # bucketState)
            => posts' = Ranked(bucketState', now)]_vars

\* an error has been reported, the bucket of mine is still empty and the feed is
\* the ranking of a later snapshot that holds the other user's reaction
C22_Witness ==
    /\ message = "feed"
    /\ bucketState.mine = <<>>
    /\ \E i \in 1..Len(posts) : otherUserId \in DOMAIN posts[i].reacted_by

\* C23: loadMoreFeed called when feedVisibleCount already covers the whole
\* filtered list changes neither feedVisibleCount nor feedFetchLimit, and the
\* subscriptions (cutoffDate, bucketState) and the feed list stay as they were.
C23_LoadMoreAtEndChangesNothing ==
    [][(/\ loadMoreFeed
        /\ posts # <<>>
        /\ feedVisibleCount >= Len(moodFilteredHomePosts(posts, selectedHashtag)))
            => UNCHANGED <<feedVisibleCount, feedFetchLimit, cutoffDate, bucketState, posts>>]_vars

\* C24: selecting a hashtag (or none) leaves feedVisibleCount at exactly one
\* page of the newly filtered list: feedPageSize, or its length if smaller.
C24_SelectResetsToOnePage ==
    [][\A tag \in {"", "fit"} :
            SelectHashtag(tag)
                => feedVisibleCount' =
                       Min(feedPageSize, Len(moodFilteredHomePosts(posts', selectedHashtag')))]_vars

\* C25: feedFetchLimit never decreases and never exceeds 1200.
C25_FetchLimitGrowsToCeiling ==
    [][feedFetchLimit <= feedFetchLimit' /\ feedFetchLimit' <= 1200]_vars

\* the limit has reached the ceiling with every post of a full feed visible
C25_Witness ==
    /\ feedFetchLimit = 1200
    /\ Len(posts) = MaxFeed
    /\ feedVisibleCount = MaxFeed

\* C26: a step that raises feedFetchLimit leaves the subscriptions standing:
\* cutoffDate and the snapshots held in bucketState are the same after it.
C26_RaisedLimitKeepsBuckets ==
    [][feedFetchLimit' > feedFetchLimit
            => cutoffDate' = cutoffDate /\ bucketState' = bucketState]_vars

\* C27: a post normalized from a document that has neither reactions_count nor
\* reacted_by (the legacy shape) has its likes folded into thumbs_up once: its
\* thumbs_up count equals the number of users its reacted_by maps to thumbs_up.
C27_LegacyLikesFoldedOnce ==
    \A i \in 1..Len(posts) :
        LET data == db[posts[i].id]
        IN  (~data.has_reactions_count /\ ~data.has_reacted_by)
                => posts[i].reactions_count["thumbs_up"] =
                       Cardinality({u \in DOMAIN posts[i].reacted_by :
                                        posts[i].reacted_by[u] = "thumbs_up"})

C29_EngagementIsSum ==
    \A i \in 1..Len(posts) :
        posts[i].engagement_count = computeReactionTotal(posts[i].reactions_count)

\* a reaction was rolled back and the post still counts a reaction
C29_Witness ==
    /\ message = "reaction"
    /\ reactCalls = {}
    /\ \E i \in 1..Len(posts) : posts[i].engagement_count > 0

\* C30: a committed comment append leaves the document with at most 150
\* comments: the appended comment last, before it the most recent of the earlier
\* ones in their order, and comments_count equal to the length of the list.
C30_CommentsCapped ==
    [][\A call \in commentCalls :
            CommentCommits(call) =>
                LET old == db[call.postId].comments
                    new == db'[call.postId].comments
                    dropped == Len(old) + 1 - Len(new)
                IN  /\ Len(new) = Min(commentsKept, Len(old) + 1)
                    /\ new[Len(new)] = call.comment
                    /\ \A i \in 1..(Len(new) - 1) : new[i] = old[i + dropped]
                    /\ db'[call.postId].comments_count = Len(new)]_vars

\* the list is full, ends with a comment of the current user and has lost the
\* oldest of the earlier comments
C30_Witness ==
    \E p \in DOMAIN db :
        /\ Len(db[p].comments) = commentsKept
        /\ db[p].comments_count = commentsKept
        /\ db[p].comments[commentsKept].user_id = currentUserId
        /\ db[p].comments[1].created_at > 0 - commentsKept

\* C31: with a remote side that settles, a post that is in pendingReactions
\* leaves it again, and a post that is in pendingComments leaves it again.
C31_PendingReturnsToIdle ==
    /\ \A p \in ReactPosts : (p \in pendingReactions) ~> (p \notin pendingReactions)
    /\ \A p \in ReactPosts : (p \in pendingComments) ~> (p \notin pendingComments)

\* a reaction call failed and was cleared while the user's comment, committed
\* and cleared before, is in the document: nothing is pending any more
C31_Witness ==
    /\ message = "reaction"
    /\ pendingReactions = {} /\ reactCalls = {}
    /\ pendingComments = {} /\ commentCalls = {}
    /\ \E p \in DOMAIN db : db[p].comments # <<>>

\* C32: once the reaction transaction has committed, the feed keeps the
\* optimistic reaction: a rejected logActivity leaves the feed list as it is.
C32_CommittedReactionKept ==
    [][\A call \in reactCalls :
            (call.stage = "logActivity" /\ LogActivityFails(call)) => posts' = posts]_vars

\* C33: once addDoc has resolved, the entry of the post is not tagged failed: a
\* rejected logActivity leaves no entry of its tempId with delivery_status failed.
C33_PersistedPostNotFailed ==
    [][\A call \in createCalls :
            (call.stage = "logActivity" /\ CreateLogFails(call))
                => \A i \in 1..Len(posts') :
                       posts'[i].id = call.tempId => posts'[i].delivery_status # "failed"]_vars

\* an entry of the feed is tagged sending
AnySending == \E i \in 1..Len(posts) : posts[i].delivery_status = "sending"

BucketRows(buckets) ==
    {buckets.mine[i] : i \in 1..Len(buckets.mine)}
        \cup {buckets.campus[i] : i \in 1..Len(buckets.campus)}
        \cup {buckets.global[i] : i \in 1..Len(buckets.global)}
        \cup UNION {{buckets.following[c][i] : i \in 1..Len(buckets.following[c])} :
                        c \in DOMAIN buckets.following}

\* C35: after a rerank (a snapshot callback or the timer) the ids of the feed are
\* exactly the ids of the bucket rows created within feedWindowMs of the clock,
\* and in every state no two entries of the feed have the same id.
C35_OneEntryPerBucketId ==
    [][/\ \A i, j \in 1..Len(posts') : posts'[i].id = posts'[j].id => i = j
       /\ (RankTimer \/ \E source \in ComposeSources : OnSnapshot(source))
            => {posts'[i].id : i \in 1..Len(posts')} =
                   {row.id : row \in {r \in BucketRows(bucketState') :
                                          r.created_at > 0 /\ now - r.created_at <= feedWindowMs}}]_vars

\* the current user's new post is in two buckets and once in the feed, and the
\* older post of the buckets has left the window and the feed
C35_Witness ==
    /\ \E i \in 1..Len(bucketState.mine), j \in 1..Len(bucketState.global) :
            /\ bucketState.mine[i].id = bucketState.global[j].id
            /\ \E k \in 1..Len(posts) : posts[k].id = bucketState.mine[i].id
    /\ \E j \in 1..Len(bucketState.global) :
            /\ now - bucketState.global[j].created_at > feedWindowMs
            /\ \A k \in 1..Len(posts) : posts[k].id # bucketState.global[j].id

\* C36: from any state, the snapshots of two different subscriptions delivered
\* in either order leave buckets whose ranking (list, order and scores) is the
\* same.
C36_DeliveryOrderIrrelevant ==
    \A s, t \in Sources :
        s # t =>
            LET st == WithSnapshot(WithSnapshot(bucketState, s, SnapshotRows(s)), t, SnapshotRows(t))
                ts == WithSnapshot(WithSnapshot(bucketState, t, SnapshotRows(t)), s, SnapshotRows(s))
            IN  Ranked(st, now) = Ranked(ts, now)

\* mine and following hold different posts, both ranked in the feed, while the
\* document of one of them has changed since
C36_Witness ==
    /\ bucketState.mine # <<>>
    /\ \E c \in DOMAIN bucketState.following : bucketState.following[c] # <<>>
    /\ Len(posts) = 2
    /\ \E i \in 1..Len(posts) : posts[i].reacted_by # db[posts[i].id].reacted_by

\* C37: the optimistic step of an accepted reactToPost keeps the length and the
\* order of the feed list, leaves every entry of another id as it is, and
\* changes no field of the target entry other than reacted_by, reactions_count,
\* engagement_count and steeze_score.
C37_OptimisticPatchFrame ==
    [][\A postId \in ReactPosts, reactionKey \in ReactInputs :
            (CanReact(postId, reactionKey) /\ ReactToPost(postId, reactionKey))
                => /\ Len(posts') = Len(posts)
                   /\ \A i \in 1..Len(posts) :
                          /\ posts'[i].id = posts[i].id
                          /\ DOMAIN posts'[i] = DOMAIN posts[i]
                          /\ \A f \in DOMAIN posts[i] :
                                 (posts[i].id # postId
                                    \/ f \notin {"reacted_by", "reactions_count",
                                                  "engagement_count", "steeze_score"})
                                     => posts'[i][f] = posts[i][f]]_vars

\* the target is pending with the user's reaction in a feed of two posts
C37_Witness ==
    /\ Len(posts) = 2
    /\ \E i \in 1..Len(posts) :
            /\ posts[i].id \in pendingReactions
            /\ currentUserId \in DOMAIN posts[i].reacted_by

\* C38: when deleteDoc rejects, the deleted post is in the feed again and every
\* entry the feed held just before, other than one of the deleted id, is in the
\* feed unchanged.
C38_FailedDeleteKeepsFeed ==
    [][\A call \in deleteCalls :
            DeleteFails(call)
                => /\ \E j \in 1..Len(posts') : posts'[j].id = call.postId
                   /\ \A i \in 1..Len(posts) :
                          posts[i].id # call.postId
                              => \E j \in 1..Len(posts') : posts'[j] = posts[i]]_vars

\* C39: feedVisibleCount is at most the length of the filtered list, is 0 only
\* if that list is empty, and is at least min(feedPageSize, length).
C39_VisibleCountInRange ==
    LET length == Len(moodFilteredHomePosts(posts, selectedHashtag))
    IN  /\ 0 <= feedVisibleCount /\ feedVisibleCount <= length
        /\ feedVisibleCount = 0 => length = 0
        /\ feedVisibleCount >= Min(feedPageSize, length)

\* more than a page was visible when a hashtag shortened the list to 13
C39_Witness ==
    /\ selectedHashtag = "fit"
    /\ Len(posts) = MaxFeed
    /\ Len(moodFilteredHomePosts(posts, selectedHashtag)) = feedVisibleCount
    /\ feedVisibleCount > feedPageSize

====
